---- MODULE Spec2Model ----
(***************************************************************************)
(* A model of universal-swagger-generator.js: the classification of a     *)
(* project tree, the discovery of its route files, the extraction of      *)
(* routes from each file and the merge of the per-file maps into          *)
(* spec.paths.                                                            *)
(*                                                                         *)
(* Text (file paths, file contents, route paths, glob patterns) is a      *)
(* sequence of symbols.  A symbol is either one punctuation character     *)
(* ("/", ".", "(", "'", ...), one white-space character, or a run of      *)
(* identifier characters ("app", "users", "get") that no pattern of the   *)
(* program splits: every place where a pattern of the program can start   *)
(* or stop matching is a symbol boundary of the texts used here.          *)
(***************************************************************************)
EXTENDS Integers, Sequences, FiniteSets, TLC

----------------------------------------------------------------------------
(* String primitives of the JavaScript runtime, on symbol sequences.       *)

StartsWith(s, p) == Len(s) >= Len(p) /\ SubSeq(s, 1, Len(p)) = p

EndsWith(s, p) == Len(s) >= Len(p) /\ SubSeq(s, Len(s) - Len(p) + 1, Len(s)) = p

Includes(s, p) == \E i \in 1..(Len(s) - Len(p) + 1) : SubSeq(s, i, i + Len(p) - 1) = p

Tail0(s, n) == SubSeq(s, n + 1, Len(s))

\* s.replace(/^p/, '')
StripPrefix(s, p) == IF StartsWith(s, p) THEN Tail0(s, Len(p)) ELSE s

\* s.replace(/p$/, '')
StripSuffix(s, p) == IF EndsWith(s, p) THEN SubSeq(s, 1, Len(s) - Len(p)) ELSE s

\* s.split(sep) for a one-character separator
RECURSIVE Split(_, _)
Split(s, sep) ==
    IF \A i \in 1..Len(s) : s[i] # sep THEN <<s>>
    ELSE LET i == CHOOSE k \in 1..Len(s) : s[k] = sep /\ \A j \in 1..(k - 1) : s[j] # sep
         IN  <<SubSeq(s, 1, i - 1)>> \o Split(Tail0(s, i), sep)

\* parts.join(sep)
RECURSIVE Join(_, _)
Join(parts, sep) ==
    IF Len(parts) = 0 THEN <<>>
    ELSE IF Len(parts) = 1 THEN parts[1]
    ELSE parts[1] \o <<sep>> \o Join(Tail(parts), sep)

RECURSIVE Flatten(_)
Flatten(ss) == IF Len(ss) = 0 THEN <<>> ELSE ss[1] \o Flatten(Tail(ss))

Range(s) == {s[i] : i \in 1..Len(s)}

\* s.replace(/\/+/g, '/')
RECURSIVE CollapseSlashes(_)
CollapseSlashes(s) ==
    IF Len(s) < 2 THEN s
    ELSE IF s[1] = "/" /\ s[2] = "/" THEN CollapseSlashes(Tail(s))
    ELSE <<s[1]>> \o CollapseSlashes(Tail(s))

\* the character classes of the program's patterns
Punct == {"/", ".", ":", "[", "]", "<", ">", "{", "}", "$", "(", ")", "'", "\"",
          ",", "=", "?", "*", "|", "\\", "!", ";", "@", "-", "BACKTICK", "[^/]*", " ", "\n"}
IsWs(t) == t \in {" ", "\n"}
IsQuote(t) == t \in {"'", "\""}
\* [a-zA-Z_][a-zA-Z0-9_]* : a run of identifier characters
IsIdent(t) == t \notin Punct

\* String.prototype.toLowerCase / toUpperCase on the verbs
Lower(t) ==
    CASE t \in {"GET", "Get", "get"} -> "get"
      [] t \in {"POST", "Post", "post"} -> "post"
      [] t \in {"PUT", "Put", "put"} -> "put"
      [] t \in {"DELETE", "Delete", "delete"} -> "delete"
      [] t \in {"PATCH", "Patch", "patch"} -> "patch"
      [] t \in {"EXPORT", "export"} -> "export"
      [] t \in {"ASYNC", "async"} -> "async"
      [] t \in {"FUNCTION", "function"} -> "function"
      [] t = "All" -> "all"
      [] t = "Index" -> "index"
      [] t = "Users" -> "users"
      [] OTHER -> t

Upper(t) ==
    CASE t = "get" -> "GET"
      [] t = "post" -> "POST"
      [] t = "put" -> "PUT"
      [] t = "delete" -> "DELETE"
      [] t = "patch" -> "PATCH"
      [] OTHER -> t

\* the position of the first symbol at or after i that is not white space (\s*)
RECURSIVE SkipWs(_, _)
SkipWs(c, i) == IF i <= Len(c) /\ IsWs(c[i]) THEN SkipWs(c, i + 1) ELSE i

\* the position of the first quote at or after i, 0 when there is none ([^'"]*['"])
RECURSIVE NextQuote(_, _)
NextQuote(c, i) ==
    IF i > Len(c) THEN 0
    ELSE IF IsQuote(c[i]) THEN i
    ELSE NextQuote(c, i + 1)

\* the position of the first occurrence of t at or after i, 0 when there is none
RECURSIVE NextTok(_, _, _)
NextTok(c, i, t) ==
    IF i > Len(c) THEN 0
    ELSE IF c[i] = t THEN i
    ELSE NextTok(c, i + 1, t)

----------------------------------------------------------------------------
(* path.join and path.normalize of node:path (POSIX), for relative paths   *)
(* without "..": the segments "." and "" disappear, and the empty result   *)
(* is ".".                                                                 *)

NotDotSeg(seg) == seg # <<>> /\ seg # <<".">>

Normalize(p) ==
    LET segs == SelectSeq(Split(p, "/"), NotDotSeg)
    IN  IF Len(segs) = 0 THEN <<".">> ELSE Join(segs, "/")

PathJoin(dir, name) == Normalize(dir \o <<"/">> \o name)

\* the segments of a normalized path, <<>> for "."
Segs(p) == LET n == Normalize(p) IN IF n = <<".">> THEN <<>> ELSE Split(n, "/")

----------------------------------------------------------------------------
(* The texts of the project trees: route declarations in the idioms the    *)
(* program looks for.                                                      *)

\* <obj>.<verb>('<path>', h);
Call(obj, verb, p) == <<obj, ".", verb, "(", "'">> \o p \o <<"'", ",", " ", "h", ")", ";", "\n">>

\* export async function <NAME>() {}
ExportFn(name) == <<"export", " ", "async", " ", "function", " ">> \o name
                      \o <<"(", ")", " ", "{", "}", "\n">>

\* path('<literal>', views.<view>),
DjangoEntry(p, view) == <<"path", "(", "'">> \o p \o <<"'", ",", " ", "views", ".", view, ")", ",", "\n">>

\* case <VERB>(p"<pattern>") => ctrl.<action>
PlayCase(verb, p, action) == <<"case", " ", verb, "(", "p", "\"">> \o p
                                 \o <<"\"", ")", " ", "=", ">", " ", "ctrl", ".", action, "\n">>

\* { method: '<VERB>', path: '<path>', handler: '<handler>' },
StrapiRoute(verb, p, handler) ==
    <<"{", " ", "method", ":", " ", "'", verb, "'", ",", " ", "path", ":", " ", "'">> \o p
      \o <<"'", ",", " ", "handler", ":", " ", "'", handler, "'", " ", "}", ",", "\n">>

\* case <VERB>(p"<pattern>" ? q_o"<name>=$<binding>") => ctrl.<action>
PlayCaseQuery(verb, p, name, binding, action) ==
    <<"case", " ", verb, "(", "p", "\"">> \o p
      \o <<"\"", " ", "?", " ", "q_o", "\"", name, "=", "$", binding, "\"", ")",
           " ", "=", ">", " ", "ctrl", ".", action, "\n">>

ReqQuery(name) == <<"req", ".", "query", ".", name, ";", "\n">>
ReqBody == <<"req", ".", "body", ";", "\n">>

File(p, c) == [path |-> p, content |-> c]

(* The candidate files of a project tree, in the order of a depth-first    *)
(* walk that visits the entries of a directory in name order.  A tree is   *)
(* a set of indices of this sequence; its directories are the proper       *)
(* prefixes of its files' paths.                                           *)
\* the most .php files a project tree holds in one directory
MaxPhp == 6

PhpText == <<"<", "?", "php", "\n">>

\* .old/p1.php ... and legacy/p1.php ...
PhpFiles(dir) == [k \in 1..MaxPhp |-> File(dir \o <<"/", "p", ToString(k), ".", "php">>, PhpText)]

ManifestText == <<"{", "\"", "name", "\"", ":", " ", "\"", "demo", "\"", ",", " ",
                  "\"", "dependencies", "\"", ":", " ", "{", "\"", "strapi", "\"", ":", " ",
                  "\"", "4", "\"", "}", "}">>

\* a manifest cut off in the middle
BrokenManifestText == <<"{", "\"", "name", "\"", ":">>

Universe == PhpFiles(<<".", "old">>) \o <<
    File(<<"Cargo", ".", "toml">>, <<"[", "package", "]", "\n">>),
    File(<<"Gemfile">>, <<"source", " ", "'", "rubygems", "'", "\n">>),
    File(<<"accounts", "/", "urls", ".", "py">>,
         DjangoEntry(<<"login", "/">>, "login")
           \o DjangoEntry(<<"user", "/", "<", "int", ":", "pk", ">", "/">>, "user_detail")
           \o DjangoEntry(<<>>, "index")),
    File(<<"api", "/", "a", ".", "js">>,
         Call("app", "get", <<"/", "x">>)),
    File(<<"api", "/", "b", ".", "js">>,
         Call("app", "get", <<"/", "x">>) \o ReqQuery("page")),
    File(<<"api", "/", "c", ".", "js">>,
         Call("app", "post", <<"/", "x">>) \o ReqBody),
    File(<<"api", "/", "d", ".", "js">>,
         <<"app", ".", "use", "(", "h", ")", ";", "\n">>),
    File(<<"app", "/", "api", "/", "node_modules", "/", "pkg", "/", "route", ".", "js">>,
         ExportFn(<<"PATCH">>)),
    File(<<"app", "/", "api", "/", "users", "/", "[", "id", "]", "/", "route", ".", "ts">>,
         ExportFn(<<"GET">>) \o ExportFn(<<"DELETE">>)),
    File(<<"app", "/", "api", "/", "users", "/", "locked", "/", "route", ".", "ts">>,
         ExportFn(<<"PUT">>)),
    File(<<"app", "/", "api", "/", "users", "/", "route", ".", "ts">>,
         ExportFn(<<"GET">>) \o ExportFn(<<"POST">>)),
    File(<<"app", "/", "api", "/", "users", "/", "sub", "route", ".", "ts">>,
         ExportFn(<<"GET">>)),
    File(<<"app", "/", "controllers", "/", "v1", "/", "Router", ".", "scala">>,
         PlayCase("GET", <<"/", "users">>, "list")
           \o PlayCase("GET", <<"/", "user", "/", "$", "userId">>, "get")
           \o PlayCase("PATCH", <<"/", "user", "/", "$", "userId">>, "update")
           \o PlayCaseQuery("GET", <<"/", "case", "/", "$", "caseId">>, "select", "select", "get")),
    File(<<"backend", "/", "src", "/", "modules", "/", "user", "/", "user", ".", "router", ".", "js">>,
         Call("router", "get", <<"profile">>) \o Call("router", "get", <<"/", "profile">>)
           \o Call("router", "put", <<"/", ":", "id", "/">>) \o ReqBody),
    File(<<"build", ".", "gradle">>, <<"plugins", " ", "{", "}", "\n">>),
    File(<<"build", ".", "sbt">>, <<"name", " ", ":", "=", " ", "demo", "\n">>),
    File(<<"composer", ".", "json">>, <<"{", "}", "\n">>),
    File(<<"config", "/", "server", ".", "js">>, <<"module", ".", "exports", " ", "=", " ", "{", "}", "\n">>),
    File(<<"go", ".", "mod">>, <<"module", " ", "demo", "\n">>)
>> \o PhpFiles(<<"legacy">>) \o <<
    File(<<"manage", ".", "py">>, <<"import", " ", "django", "\n">>),
    File(<<"package", ".", "json">>, BrokenManifestText),
    File(<<"package", ".", "json">>, ManifestText),
    File(<<"packages", "/", "a", "/", "server", "/", "admin", "/", "routes", "/", "z", ".", "js">>,
         StrapiRoute("GET", <<"/", "admin">>, "zfind")),
    File(<<"packages", "/", "a", "/", "server", "/", "routes", "/", "deep", "/", "w", ".", "js">>,
         StrapiRoute("GET", <<"/", "deep">>, "wfind")),
    File(<<"packages", "/", "a", "/", "server", "/", "routes", "/", "x", ".", "js">>,
         StrapiRoute("GET", <<"/", "items", "/", ":", "id">>, "afind")
           \o StrapiRoute("DELETE", <<"/", "items", "/", ":", "id">>, "adelete")),
    File(<<"packages", "/", "b", "/", "server", "/", "routes", "/", "y", ".", "js">>,
         StrapiRoute("GET", <<"/", "items", "/", ":", "id">>, "bfind")
           \o StrapiRoute("POST", <<"/", "items", "/", ":", "id">>, "bcreate")),
    File(<<"packages", "/", "c", "/", "routes", "/", "v", ".", "js">>,
         StrapiRoute("GET", <<"/", "plain">>, "vfind")),
    File(<<"pages", "/", "api", "/", "hello", ".", "ts">>,
         ExportFn(<<"GET">>)),
    File(<<"pom", ".", "xml">>, <<"<", "project", "/", ">", "\n">>),
    File(<<"routes", "/", "users", ".", "js">>,
         Call("router", "get", <<"/", ":", "id">>) \o Call("router", "post", <<"/">>) \o ReqBody),
    File(<<"routes", "/", "v1", "/", "items", ".", "js">>,
         Call("router", "get", <<"/">>)),
    File(<<"server", ".", "js">>,
         Call("app", "get", <<"/", "health">>) \o Call("app", "post", <<"/", "items">>) \o ReqBody),
    File(<<"src", "/", "modules", "/", "auth", "/", "auth", ".", "router", ".", "ts">>,
         Call("router", "get", <<"/", "me">>) \o Call("router", "post", <<"/", "login">>) \o ReqBody),
    File(<<"src", "/", "routes", "/", "users", ".", "ts">>,
         Call("router", "get", <<"/", ":", "id">>) \o ReqQuery("page"))
>>

FileIds == 1..Len(Universe)

\* the largest number of files of a project tree
MaxFiles == 3

\* a set of files is a tree when no two of them have the same path
IsTree(t) == \A i \in t : \A j \in t : Universe[i].path = Universe[j].path => i = j

\* the files with the given paths
TreeOf(ps) == {i \in FileIds : Universe[i].path \in ps}

IsPhp(q) == EndsWith(q, <<".", "php">>)

PackageJson == <<"package", ".", "json">>
ComposerJson == <<"composer", ".", "json">>
UsersRoute == <<"app", "/", "api", "/", "users", "/", "route", ".", "ts">>
UsersIdRoute == <<"app", "/", "api", "/", "users", "/", "[", "id", "]", "/", "route", ".", "ts">>
LockedRoute == <<"app", "/", "api", "/", "users", "/", "locked", "/", "route", ".", "ts">>
SubRoute == <<"app", "/", "api", "/", "users", "/", "sub", "route", ".", "ts">>
ModulesRoute == <<"app", "/", "api", "/", "node_modules", "/", "pkg", "/", "route", ".", "js">>
ServerJs == <<"server", ".", "js">>
ServerConfig == <<"config", "/", "server", ".", "js">>
UseOnly == <<"api", "/", "d", ".", "js">>
AdminRoutes == <<"packages", "/", "a", "/", "server", "/", "admin", "/", "routes", "/", "z", ".", "js">>
DeepRoutes == <<"packages", "/", "a", "/", "server", "/", "routes", "/", "deep", "/", "w", ".", "js">>
PlainRoutes == <<"packages", "/", "c", "/", "routes", "/", "v", ".", "js">>
ServerRoutes == <<"packages", "/", "a", "/", "server", "/", "routes", "/", "x", ".", "js">>
AuthRouter == <<"src", "/", "modules", "/", "auth", "/", "auth", ".", "router", ".", "ts">>

\* the manifests of other ecosystems besides composer.json
OtherMarkers == {<<"Cargo", ".", "toml">>, <<"Gemfile">>, <<"build", ".", "gradle">>,
                 <<"go", ".", "mod">>, <<"pom", ".", "xml">>}

(* The project trees are explored in families.  The runs of Spec are on    *)
(* the trees of route files of the dialects; the trees with a manifest,    *)
(* with the further files of an App Router directory, and with .php        *)
(* sources or another ecosystem's manifest have a specification each.      *)
RunIds == {i \in FileIds : /\ ~IsPhp(Universe[i].path)
                           /\ Universe[i].path \notin OtherMarkers
                           /\ Universe[i].path \notin {PackageJson, LockedRoute, SubRoute, ModulesRoute,
                                                        UseOnly, AdminRoutes, DeepRoutes, PlainRoutes}}

\* the subsets of S of at most n elements
RECURSIVE SubsetsUpTo(_, _)
SubsetsUpTo(S, n) ==
    IF n = 0 THEN {{}}
    ELSE LET smaller == SubsetsUpTo(S, n - 1)
         IN  smaller \cup {t \cup {x} : t \in smaller, x \in S}

Trees == {t \in SubsetsUpTo(RunIds, MaxFiles) : IsTree(t)}

\* the trees of an App Router project, of a Django project with an app/api
\* directory and of a project a composer.json rejects
AppRouterIds == TreeOf({UsersRoute, UsersIdRoute, LockedRoute, SubRoute, ModulesRoute,
                        ComposerJson, <<"manage", ".", "py">>})

AppRouterTrees == {t \in SubsetsUpTo(AppRouterIds, MaxFiles) : IsTree(t)}

\* the trees with a package.json, whole or broken
ManifestIds == TreeOf({PackageJson, ComposerJson, ServerJs, UsersRoute,
                       <<"config", "/", "server", ".", "js">>,
                       <<"packages", "/", "a", "/", "server", "/", "routes", "/", "x", ".", "js">>})

ManifestTrees == {t \in SubsetsUpTo(ManifestIds, MaxFiles) : IsTree(t)}

\* the trees of a Strapi project, of a project with an api directory or a
\* server.js and of a project a composer.json rejects
DiscoveryIds == TreeOf({ServerConfig, AdminRoutes, DeepRoutes, ServerRoutes, PlainRoutes,
                        <<"api", "/", "a", ".", "js">>, UseOnly, ServerJs, ComposerJson})

DiscoveryTrees == {t \in SubsetsUpTo(DiscoveryIds, MaxFiles) : IsTree(t)}

\* the files that exist and cannot be read (EACCES)
UnreadablePaths == {LockedRoute}

----------------------------------------------------------------------------
(* node:fs on a tree, with the project root as working directory.          *)

\* p is a proper directory prefix of the path q (both normalized)
IsUnder(q, p) == p = <<".">> \/ StartsWith(q, p \o <<"/">>)

\* fs.existsSync(p): a file or a directory of the tree
ExistsSync(tree, p) ==
    LET n == Normalize(p)
    IN  \E i \in tree : Universe[i].path = n \/ IsUnder(Universe[i].path, n)

IsFile(tree, p) == \E i \in tree : Universe[i].path = Normalize(p)

\* fs.readFileSync(p, 'utf8') returns, it does not throw
Readable(tree, p) == IsFile(tree, p) /\ Normalize(p) \notin UnreadablePaths

\* fs.readFileSync(p, 'utf8') of an existing file
ReadFileSync(tree, p) ==
    LET i == CHOOSE k \in tree : Universe[k].path = Normalize(p) IN Universe[i].content

\* the names of the directories strictly between the directory dir and the file q
DirsBetween(q, dir) ==
    LET qs == Segs(q)
        n  == Len(Segs(dir))
    IN  SubSeq(qs, n + 1, Len(qs) - 1)

BaseName(q) == LET qs == Segs(q) IN qs[Len(qs)]

\* the path of the file q relative to the directory d (both normalized)
RelTo(q, d) == IF d = <<".">> THEN q ELSE Tail0(q, Len(d) + 1)

(* The recursive walks of the program all have one shape: readdirSync,     *)
(* descend into the directories whose name passes Descend, collect the     *)
(* files that pass Keep, each under the path path.join builds for it on    *)
(* the way down from dir.  The result lists, in walk order, the files      *)
(* below dir all of whose intermediate directories pass Descend.           *)
Walk(tree, dir, Descend(_), Keep(_)) ==
    LET d == Normalize(dir)
        Visit(i) == /\ i \in tree
                    /\ IsUnder(Universe[i].path, d)
                    /\ \A k \in 1..Len(DirsBetween(Universe[i].path, d)) :
                           Descend(DirsBetween(Universe[i].path, d)[k])
                    /\ Keep(PathJoin(dir, RelTo(Universe[i].path, d)))
        ids == SelectSeq([i \in FileIds |-> i], Visit)
    IN  [k \in 1..Len(ids) |-> PathJoin(dir, RelTo(Universe[ids[k]].path, d))]

AnyDir(name) == TRUE
NotHidden(name) == ~StartsWith(name, <<".">>)
NotHiddenNorModules(name) == NotHidden(name) /\ name # <<"node_modules">>
NotHiddenNorPycache(name) == NotHidden(name) /\ name # <<"__pycache__">>

IsSourceName(q) == EndsWith(q, <<".", "js">>) \/ EndsWith(q, <<".", "ts">>)

----------------------------------------------------------------------------
(* Classification: detectProjectType and its helpers.                      *)

Here == <<".">>
Rel(p) == <<".", "/">> \o p

IsJsTsPhp(q) == IsSourceName(q) \/ EndsWith(q, <<".", "php">>)

findJSFiles(tree, dir) == Walk(tree, dir, NotHiddenNorModules, IsJsTsPhp)

\* the number of .php files above which a tree is a PHP project
PhpThreshold == 5

ForeignMarkers == {<<"composer", ".", "json">>, <<"Gemfile">>, <<"pom", ".", "xml">>,
                   <<"build", ".", "gradle">>, <<"Cargo", ".", "toml">>, <<"go", ".", "mod">>}

\* isUnsupportedProject as it would be if PhpThreshold files were enough
isUnsupportedProject_AtThreshold(tree) ==
    LET phpFiles == SelectSeq(findJSFiles(tree, Here), IsPhp)
    IN  \/ Len(phpFiles) >= PhpThreshold
        \/ \E m \in ForeignMarkers : ExistsSync(tree, Rel(m))

isUnsupportedProject(tree) ==
    LET phpFiles == SelectSeq(findJSFiles(tree, Here), IsPhp)
    IN  \/ Len(phpFiles) > PhpThreshold
        \/ \E m \in ForeignMarkers : ExistsSync(tree, Rel(m))

\* JSON.parse succeeds on an object literal; the model's manifests are
\* { "dependencies": { "<name>": ... } ... } or broken text
JsonParses(c) == Len(c) >= 2 /\ c[1] = "{" /\ c[Len(c)] = "}"

HasDependency(c, name) ==
    /\ Includes(c, <<"\"", "dependencies", "\"", ":">>)
    /\ Includes(c, <<"\"", name, "\"", ":">>)

hasStrapiProject(tree) ==
    \/ ExistsSync(tree, Rel(<<"packages", "/", "core">>)) /\ ExistsSync(tree, Rel(<<"lerna", ".", "json">>))
    \/ ExistsSync(tree, Rel(<<"config", "/", "server", ".", "js">>))
    \/ ExistsSync(tree, Rel(<<"config", "/", "server", ".", "ts">>))
    \/ /\ Readable(tree, Rel(PackageJson))
       /\ JsonParses(ReadFileSync(tree, Rel(PackageJson)))
       /\ \/ HasDependency(ReadFileSync(tree, Rel(PackageJson)), "@strapi/strapi")
          \/ HasDependency(ReadFileSync(tree, Rel(PackageJson)), "strapi")

IsRouterScala(q) == EndsWith(q, <<"Router", ".", "scala">>)

hasPlayFrameworkProject(tree) ==
    /\ ExistsSync(tree, Rel(<<"build", ".", "sbt">>))
    /\ Len(Walk(tree, Here, NotHiddenNorModules, IsRouterScala)) > 0

ManagePy == <<"manage", ".", "py">>

\* the immediate child directories of the root that hold a manage.py, in readdir order
DjangoRoots(tree) ==
    LET Holds(i) == i \in tree /\ Len(Segs(Universe[i].path)) = 2
                              /\ BaseName(Universe[i].path) = ManagePy
        ids == SelectSeq([i \in FileIds |-> i], Holds)
    IN  [k \in 1..Len(ids) |-> Segs(Universe[ids[k]].path)[1]]

hasDjangoProject(tree) == ExistsSync(tree, Rel(ManagePy)) \/ Len(DjangoRoots(tree)) > 0

\* this.djangoRoot after hasDjangoProject: <<>> when it stays undefined
DjangoRootOf(tree) ==
    IF ExistsSync(tree, Rel(ManagePy)) \/ Len(DjangoRoots(tree)) = 0 THEN <<>>
    ELSE DjangoRoots(tree)[1]

IsRouterFileName(name) == Includes(name, <<".", "router", ".">>) /\ IsSourceName(name)

\* some entry of some immediate subdirectory of dir is named like a router file
hasRouterFiles(tree, dir) ==
    LET n == Len(Segs(dir))
    IN  \E i \in tree : /\ IsUnder(Universe[i].path, Normalize(dir))
                        /\ Len(Segs(Universe[i].path)) >= n + 2
                        /\ IsRouterFileName(Segs(Universe[i].path)[n + 2])

SingleFiles == <<<<"server", ".", "js">>, <<"app", ".", "js">>, <<"index", ".", "js">>, <<"main", ".", "js">>>>

CommonPaths == <<
    <<"src", "/", "api">>, <<"api">>, <<"lib", "/", "api">>, <<"lib", "/", "routes">>,
    <<"server", "/", "routes">>, <<"server", "/", "routers">>,
    <<"src", "/", "handlers">>, <<"handlers">>, <<"controllers">>, <<"src", "/", "controllers">>,
    <<"app", "/", "controllers">>, <<"src", "/", "endpoints">>, <<"endpoints">> >>

HasVerbCall(c) ==
    \/ Includes(c, <<"app", ".", "get">>) \/ Includes(c, <<"app", ".", "post">>)
    \/ Includes(c, <<"router", ".", "get">>) \/ Includes(c, <<"router", ".", "post">>)

\* LooksLikeRouter as it would be with the test of the single-file entry points
LooksLikeRouter_VerbCallOnly(tree, file) ==
    Readable(tree, file) /\ HasVerbCall(ReadFileSync(tree, file))

LooksLikeRouter(tree, file) ==
    LET c == ReadFileSync(tree, file)
    IN  /\ Readable(tree, file)
        /\ \/ Includes(c, <<"router", ".">>) \/ Includes(c, <<"app", ".">>)
           \/ Includes(c, <<"Router", "(", ")">>) \/ Includes(file, <<"router">>)

scanForRoutePatterns(tree) ==
    LET Single(f) == Readable(tree, Rel(f)) /\ HasVerbCall(ReadFileSync(tree, Rel(f)))
        Router(f) == LooksLikeRouter(tree, f)
        InDir(k) == IF ExistsSync(tree, Rel(CommonPaths[k]))
                    THEN SelectSeq(findJSFiles(tree, Rel(CommonPaths[k])), Router)
                    ELSE <<>>
    IN  SelectSeq(SingleFiles, Single) \o Flatten([k \in 1..Len(CommonPaths) |-> InDir(k)])

\* detectProjectType as it would be with the Next.js checks ahead of the Django check
detectProjectType_NextBeforeDjango(tree) ==
    IF isUnsupportedProject(tree) THEN "unsupported"
    ELSE IF hasStrapiProject(tree) THEN "strapi"
    ELSE IF hasPlayFrameworkProject(tree) THEN "play-framework"
    ELSE IF ExistsSync(tree, Rel(<<"app", "/", "api">>)) THEN "nextjs-app"
    ELSE IF ExistsSync(tree, Rel(<<"pages", "/", "api">>)) THEN "nextjs-pages"
    ELSE IF hasDjangoProject(tree) THEN "django"
    ELSE IF ExistsSync(tree, Rel(<<"routes">>)) THEN "express"
    ELSE IF ExistsSync(tree, Rel(<<"src", "/", "routes">>)) THEN "express-src"
    ELSE IF /\ ExistsSync(tree, Rel(<<"src", "/", "modules">>))
            /\ hasRouterFiles(tree, Rel(<<"src", "/", "modules">>)) THEN "express-modules"
    ELSE IF /\ ExistsSync(tree, Rel(<<"backend", "/", "src", "/", "modules">>))
            /\ hasRouterFiles(tree, Rel(<<"backend", "/", "src", "/", "modules">>))
         THEN "express-backend-modules"
    ELSE IF Len(scanForRoutePatterns(tree)) > 0 THEN "auto-detected"
    ELSE "unknown"

detectProjectType(tree) ==
    IF isUnsupportedProject(tree) THEN "unsupported"
    ELSE IF hasStrapiProject(tree) THEN "strapi"
    ELSE IF hasPlayFrameworkProject(tree) THEN "play-framework"
    ELSE IF hasDjangoProject(tree) THEN "django"
    ELSE IF ExistsSync(tree, Rel(<<"app", "/", "api">>)) THEN "nextjs-app"
    ELSE IF ExistsSync(tree, Rel(<<"pages", "/", "api">>)) THEN "nextjs-pages"
    ELSE IF ExistsSync(tree, Rel(<<"routes">>)) THEN "express"
    ELSE IF ExistsSync(tree, Rel(<<"src", "/", "routes">>)) THEN "express-src"
    ELSE IF /\ ExistsSync(tree, Rel(<<"src", "/", "modules">>))
            /\ hasRouterFiles(tree, Rel(<<"src", "/", "modules">>)) THEN "express-modules"
    ELSE IF /\ ExistsSync(tree, Rel(<<"backend", "/", "src", "/", "modules">>))
            /\ hasRouterFiles(tree, Rel(<<"backend", "/", "src", "/", "modules">>))
         THEN "express-backend-modules"
    ELSE IF Len(scanForRoutePatterns(tree)) > 0 THEN "auto-detected"
    ELSE "unknown"

\* this.customPatterns: assigned only on the auto-detected return
CustomPatternsOf(tree) ==
    IF detectProjectType(tree) = "auto-detected" THEN scanForRoutePatterns(tree) ELSE <<>>

----------------------------------------------------------------------------
(* Discovery: getRouteFiles, glob, matchesPattern and the dialect walks.   *)

\* pattern.replace(/\*\*/g, '.*')
RECURSIVE ReplaceStarStar(_)
ReplaceStarStar(s) ==
    IF Len(s) = 0 THEN <<>>
    ELSE IF Len(s) >= 2 /\ s[1] = "*" /\ s[2] = "*" THEN <<".", "*">> \o ReplaceStarStar(Tail0(s, 2))
    ELSE <<s[1]>> \o ReplaceStarStar(Tail(s))

\* .replace(/\*/g, '[^/]*'): every star that is left, those of '.*' included
RECURSIVE ReplaceStar(_)
ReplaceStar(s) ==
    IF Len(s) = 0 THEN <<>>
    ELSE IF s[1] = "*" THEN <<"[^/]*">> \o ReplaceStar(Tail(s))
    ELSE <<s[1]>> \o ReplaceStar(Tail(s))

\* .replace(/\{([^}]+)\}/g, (m, group) => `(${group.replace(/,/g, '|')})`)
RECURSIVE ReplaceBraces(_)
ReplaceBraces(s) ==
    IF Len(s) = 0 THEN <<>>
    ELSE LET j == NextTok(s, 2, "}")
         IN  IF s[1] = "{" /\ j > 2
             THEN <<"(">> \o [k \in 1..(j - 2) |-> IF s[k + 1] = "," THEN "|" ELSE s[k + 1]]
                    \o <<")">> \o ReplaceBraces(Tail0(s, j))
             ELSE <<s[1]>> \o ReplaceBraces(Tail(s))

\* .replace(/\./g, '\\.')
RECURSIVE EscapeDots(_)
EscapeDots(s) ==
    IF Len(s) = 0 THEN <<>>
    ELSE IF s[1] = "." THEN <<"\\", ".">> \o EscapeDots(Tail(s))
    ELSE <<s[1]>> \o EscapeDots(Tail(s))

GlobToRegex(pattern) == EscapeDots(ReplaceBraces(ReplaceStar(ReplaceStarStar(pattern))))

(* new RegExp(`^${regex}$`).test(s) for the regular expressions            *)
(* GlobToRegex builds: an escaped character, [^/]*, a group of literal     *)
(* alternatives, or a literal symbol.                                      *)
RECURSIVE RegexTest(_, _)
RegexTest(re, s) ==
    IF Len(re) = 0 THEN Len(s) = 0
    ELSE IF re[1] = "\\" /\ Len(re) >= 2
         THEN Len(s) > 0 /\ s[1] = re[2] /\ RegexTest(Tail0(re, 2), Tail(s))
    ELSE IF re[1] = "[^/]*"
         THEN \E k \in 0..Len(s) : /\ \A j \in 1..k : s[j] # "/"
                                   /\ RegexTest(Tail(re), Tail0(s, k))
    ELSE IF re[1] = "(" /\ NextTok(re, 2, ")") > 0
         THEN LET j == NextTok(re, 2, ")")
                  alts == Split(SubSeq(re, 2, j - 1), "|")
              IN  \E a \in 1..Len(alts) : /\ StartsWith(s, alts[a])
                                          /\ RegexTest(Tail0(re, j), Tail0(s, Len(alts[a])))
    ELSE Len(s) > 0 /\ s[1] = re[1] /\ RegexTest(Tail(re), Tail(s))

matchesPattern(filePath, pattern) ==
    IF Includes(pattern, <<"route", ".", "{", "ts", ",", "js", "}">>)
    THEN /\ Includes(filePath, <<"app", "/", "api">>) \/ Includes(filePath, <<"app", "\\", "api">>)
         /\ EndsWith(filePath, <<"route", ".", "ts">>) \/ EndsWith(filePath, <<"route", ".", "js">>)
    ELSE RegexTest(GlobToRegex(pattern), filePath)

glob(tree, pattern) ==
    LET basePath == Split(pattern, "*")[1]
        Matches(q) == matchesPattern(q, pattern)
    IN  IF ~ExistsSync(tree, basePath) THEN <<>>
        ELSE Walk(tree, basePath, AnyDir, Matches)

GlobOf(type) ==
    CASE type = "nextjs-app" -> <<".", "/", "app", "/", "api", "/", "*", "*", "/", "route", ".", "{", "ts", ",", "js", "}">>
      [] type = "nextjs-pages" -> <<".", "/", "pages", "/", "api", "/", "*", "*", "/", "*", ".", "{", "ts", ",", "js", "}">>
      [] type = "express" -> <<".", "/", "routes", "/", "*", "*", "/", "*", ".", "{", "ts", ",", "js", "}">>
      [] type = "express-src" -> <<".", "/", "src", "/", "routes", "/", "*", "*", "/", "*", ".", "{", "ts", ",", "js", "}">>
      [] type = "express-server-routers" -> <<".", "/", "server", "/", "routers", "/", "*", "*", "/", "*", ".", "{", "ts", ",", "js", "}">>
      [] OTHER -> <<>>

findRouterFiles(tree, baseDir) ==
    LET Keep(q) == IsRouterFileName(BaseName(q))
    IN  IF ~ExistsSync(tree, baseDir) THEN <<>> ELSE Walk(tree, baseDir, AnyDir, Keep)

findDjangoUrls(tree, djangoRoot) ==
    LET Keep(q) == BaseName(q) = <<"urls", ".", "py">>
    IN  Walk(tree, IF djangoRoot = <<>> THEN Here ELSE djangoRoot, NotHiddenNorPycache, Keep)

findPlayFrameworkRouters(tree) ==
    LET Keep(q) == IsRouterScala(BaseName(q))
    IN  Walk(tree, Here, NotHiddenNorModules, Keep)

StrapiSearchPaths == <<Rel(<<"packages">>), Rel(<<"src", "/", "api">>), Rel(<<"api">>),
                       Rel(<<"server", "/", "routes">>), Rel(<<"src", "/", "routes">>)>>

\* the value of dir in findRoutes after descending through the first k directories
StrapiDirAt(searchPath, between, k) ==
    IF k = 0 THEN searchPath ELSE PathJoin(searchPath, Join(SubSeq(between, 1, k), "/"))

\* findRoutes handles the directory between[k] as a server/routes directory
StrapiRoutesDirAt(searchPath, between, k) ==
    between[k] = <<"routes">> /\ Includes(StrapiDirAt(searchPath, between, k - 1), <<"server">>)

findStrapiRoutes(tree) ==
    LET Found(sp) ==
            LET d == Normalize(sp)
                Collected(i) ==
                    LET q == Universe[i].path
                        between == DirsBetween(q, d)
                        n == Len(between)
                    IN  /\ i \in tree
                        /\ IsUnder(q, d)
                        /\ n >= 1
                        /\ StrapiRoutesDirAt(sp, between, n)
                        /\ \A k \in 1..(n - 1) : /\ ~StrapiRoutesDirAt(sp, between, k)
                                                 /\ NotHiddenNorModules(between[k])
                        /\ IsSourceName(BaseName(q))
                ids == SelectSeq([i \in FileIds |-> i], Collected)
            IN  IF ~ExistsSync(tree, sp) THEN <<>>
                ELSE [k \in 1..Len(ids) |-> PathJoin(sp, RelTo(Universe[ids[k]].path, d))]
    IN  Flatten([k \in 1..Len(StrapiSearchPaths) |-> Found(StrapiSearchPaths[k])])

getRouteFiles(tree, type, customPatterns, djangoRoot) ==
    CASE type = "express-modules" -> findRouterFiles(tree, Rel(<<"src", "/", "modules">>))
      [] type = "express-backend-modules" -> findRouterFiles(tree, Rel(<<"backend", "/", "src", "/", "modules">>))
      [] type = "django" -> findDjangoUrls(tree, djangoRoot)
      [] type = "play-framework" -> findPlayFrameworkRouters(tree)
      [] type = "strapi" -> findStrapiRoutes(tree)
      [] type = "auto-detected" ->
            LET Of(pt) == IF IsSourceName(pt)
                          THEN IF StartsWith(pt, <<".", "/">>) THEN <<pt>> ELSE <<Rel(pt)>>
                          ELSE glob(tree, Rel(pt))
            IN  Flatten([k \in 1..Len(customPatterns) |-> Of(customPatterns[k])])
      [] OTHER -> IF GlobOf(type) = <<>> THEN <<>> ELSE glob(tree, GlobOf(type))

----------------------------------------------------------------------------
(* The paths map: path -> method -> Operation.                             *)

EmptyMap == [k \in {} |-> {}]

\* if (!map[key]) map[key] = {}; map[key][method] = op
Put(map, key, method, op) ==
    LET old == IF key \in DOMAIN map THEN map[key] ELSE EmptyMap
        new == [m \in DOMAIN old \cup {method} |-> IF m = method THEN op ELSE old[m]]
    IN  [k \in DOMAIN map \cup {key} |-> IF k = key THEN new ELSE map[k]]

\* Object.assign(a, b): every key of b replaces the whole entry of a
ObjectAssign(a, b) == [k \in DOMAIN a \cup DOMAIN b |-> IF k \in DOMAIN b THEN b[k] ELSE a[k]]

\* the assignments map[w.key][w.method] = w.op of a loop, in order
RECURSIVE PutAll(_, _)
PutAll(map, ws) ==
    IF Len(ws) = 0 THEN map
    ELSE PutAll(Put(map, ws[1].key, ws[1].method, ws[1].op), Tail(ws))

Param(name, in, required, type) == [name |-> name, in |-> in, required |-> required, type |-> type]

BodyParam == Param(<<"body">>, "body", TRUE, "object")

Operation(summary, description, parameters, responses) ==
    [summary |-> summary, description |-> description,
     parameters |-> parameters, responses |-> responses]

\* an Operation without a description field
NoDescription == <<>>

httpMethods == <<"get", "post", "put", "delete", "patch">>

----------------------------------------------------------------------------
(* Path derivation: getRoutePath and combineRouterPath.                    *)

\* s.replace(/\[([^\]]+)\]/g, '{$1}')
RECURSIVE ReplaceBrackets(_)
ReplaceBrackets(s) ==
    IF Len(s) = 0 THEN <<>>
    ELSE LET j == NextTok(s, 2, "]")
         IN  IF s[1] = "[" /\ j > 2
             THEN <<"{">> \o SubSeq(s, 2, j - 1) \o <<"}">> \o ReplaceBrackets(Tail0(s, j))
             ELSE <<s[1]>> \o ReplaceBrackets(Tail(s))

\* s.replace(/<suffix>\.(ts|js)$/, '') for the symbols before the dot
StripTsJs(s, before) ==
    StripSuffix(StripSuffix(s, before \o <<".", "ts">>), before \o <<".", "js">>)

getRoutePath(filePath) ==
    LET r1 == StripPrefix(filePath, <<".", "/", "app", "/", "api">>)
        r2 == StripPrefix(r1, <<".", "/", "pages", "/", "api">>)
        r3 == StripPrefix(r2, <<".", "/", "routes">>)
        r4 == StripPrefix(r3, <<".", "/", "src", "/", "routes">>)
        r5 == StripPrefix(r4, <<".", "/", "src", "/", "modules">>)
        r6 == StripPrefix(r5, <<".", "/", "backend", "/", "src", "/", "modules">>)
        r7 == StripTsJs(r6, <<"/", "route">>)
        r8 == StripTsJs(r7, <<".", "router">>)
        r9 == StripTsJs(r8, <<>>)
        r10 == ReplaceBrackets(r9)
    IN  IF r10 = <<>> THEN <<"/">> ELSE r10

\* s.replace(/^\/$/, '')
DropLoneSlash(s) == IF s = <<"/">> THEN <<>> ELSE s

\* combineRouterPath as it would be without the drop of the duplicated segment
combineRouterPath_NoCollapse(basePath, endpoint) ==
    LET cleanBase == DropLoneSlash(basePath)
        cleanEndpoint == DropLoneSlash(endpoint)
        result == cleanBase \o (IF cleanEndpoint # <<>> THEN <<"/">> \o cleanEndpoint ELSE <<>>)
        collapsed == DropLoneSlash(CollapseSlashes(result))
    IN  IF collapsed = <<>> THEN <<"/">> ELSE collapsed

combineRouterPath(basePath, endpoint) ==
    LET base0 == DropLoneSlash(basePath)
        pathParts == Split(base0, "/")
        n == Len(pathParts)
        cleanBase == IF n >= 2 /\ pathParts[n] = pathParts[n - 1]
                     THEN Join(SubSeq(pathParts, 1, n - 1), "/")
                     ELSE base0
        cleanEndpoint == DropLoneSlash(endpoint)
        result == cleanBase \o (IF cleanEndpoint # <<>> THEN <<"/">> \o cleanEndpoint ELSE <<>>)
        collapsed == DropLoneSlash(CollapseSlashes(result))
    IN  IF collapsed = <<>> THEN <<"/">> ELSE collapsed

----------------------------------------------------------------------------
(* Extraction: parseFile and the per-dialect parsers.                      *)

\* the names between braces, in order: (s.match(/\{([^}]+)\}/g) || []).map(p => p.slice(1, -1))
RECURSIVE BraceNames(_)
BraceNames(s) ==
    IF Len(s) = 0 THEN <<>>
    ELSE LET j == NextTok(s, 2, "}")
         IN  IF s[1] = "{" /\ j > 2
             THEN <<SubSeq(s, 2, j - 1)>> \o BraceNames(Tail0(s, j))
             ELSE BraceNames(Tail(s))

PathParamsOf(cleanPath) ==
    LET names == BraceNames(cleanPath)
    IN  [k \in 1..Len(names) |-> Param(names[k], "path", TRUE, "string")]

\* new RegExp(`export\\s+async\\s+function\\s+${METHOD}`, 'i').test(content)
ExportsHandler(c, method) ==
    \E i \in 1..Len(c) :
        /\ Lower(c[i]) = "export"
        /\ LET a == SkipWs(c, i + 1)
               f == SkipWs(c, a + 1)
               v == SkipWs(c, f + 1)
           IN  /\ a > i + 1 /\ a <= Len(c) /\ Lower(c[a]) = "async"
               /\ f > a + 1 /\ f <= Len(c) /\ Lower(c[f]) = "function"
               /\ v > f + 1 /\ v <= Len(c) /\ Lower(c[v]) = method

IsQuote3(t) == IsQuote(t) \/ t = "BACKTICK"

RECURSIVE NextQuote3(_, _)
NextQuote3(c, i) ==
    IF i > Len(c) THEN 0
    ELSE IF IsQuote3(c[i]) THEN i
    ELSE NextQuote3(c, i + 1)

\* the names of content.match(/searchParams\.get\(['"`]([^'"`]+)['"`]\)/g), in order
RECURSIVE SearchParamNames(_, _)
SearchParamNames(c, i) ==
    IF i > Len(c) THEN <<>>
    ELSE LET k == NextQuote3(c, i + 5)
         IN  IF /\ i + 4 <= Len(c)
                /\ SubSeq(c, i, i + 3) = <<"searchParams", ".", "get", "(">>
                /\ IsQuote3(c[i + 4])
                /\ k > i + 5 /\ k + 1 <= Len(c) /\ c[k + 1] = ")"
             THEN <<SubSeq(c, i + 5, k - 1)>> \o SearchParamNames(c, k + 2)
             ELSE SearchParamNames(c, i + 1)

ReadsBody(c) ==
    \/ Includes(c, <<"request", ".", "json", "(", ")">>)
    \/ Includes(c, <<"req", ".", "body">>)

NextResponses == {200, 400, 500}
ExpressResponses == {200, 400, 401, 404, 500}
FullResponses == {200, 400, 401, 403, 404, 500}

parseMethod(c, method) ==
    LET names == SearchParamNames(c, 1)
        query == [k \in 1..Len(names) |->
                     Param(names[k], "query", Includes(c, <<"!">> \o names[k]), "string")]
    IN  Operation(<<Upper(method), " ", "operation">>, NoDescription,
                  query \o (IF ReadsBody(c) THEN <<BodyParam>> ELSE <<>>),
                  NextResponses)

\* the endpoints of the matches of `<target>.<method>\s*\(['"]([^'"]*)['"]` in
\* content, in order; target is empty for the router pass and 'app' for the app pass
RECURSIVE CallEndpoints(_, _, _, _)
CallEndpoints(c, i, target, method) ==
    IF i > Len(c) THEN <<>>
    ELSE LET head == target \o <<".", method>>
             j == SkipWs(c, i + Len(head))
             k == NextQuote(c, j + 2)
         IN  IF /\ i + Len(head) - 1 <= Len(c)
                /\ SubSeq(c, i, i + Len(head) - 1) = head
                /\ j + 1 <= Len(c) /\ c[j] = "(" /\ IsQuote(c[j + 1])
                /\ k > 0
             THEN <<SubSeq(c, j + 2, k - 1)>> \o CallEndpoints(c, k + 1, target, method)
             ELSE CallEndpoints(c, i + 1, target, method)

\* endpoint.match(/:([a-zA-Z_][a-zA-Z0-9_]*)/g), without the colon
RECURSIVE ColonNames(_)
ColonNames(s) ==
    IF Len(s) < 2 THEN <<>>
    ELSE IF s[1] = ":" /\ IsIdent(s[2]) THEN <<(<<s[2]>>)>> \o ColonNames(Tail0(s, 2))
    ELSE ColonNames(Tail(s))

\* content.match(/req\.query\.([a-zA-Z_][a-zA-Z0-9_]*)/g), the names
RECURSIVE ReqQueryNames(_)
ReqQueryNames(c) ==
    IF Len(c) < 5 THEN <<>>
    ELSE IF SubSeq(c, 1, 4) = <<"req", ".", "query", ".">> /\ IsIdent(c[5])
         THEN <<(<<c[5]>>)>> \o ReqQueryNames(Tail0(c, 5))
    ELSE ReqQueryNames(Tail(c))

\* the query parameters appended one by one, skipping a name already among the parameters
RECURSIVE AddQueryParams(_, _)
AddQueryParams(params, names) ==
    IF Len(names) = 0 THEN params
    ELSE IF \E k \in 1..Len(params) : params[k].name = names[1]
         THEN AddQueryParams(params, Tail(names))
    ELSE AddQueryParams(Append(params, Param(names[1], "query", FALSE, "string")), Tail(names))

parseExpressMethod(c, method, endpoint) ==
    LET names == ColonNames(endpoint)
        pathParams == [k \in 1..Len(names) |-> Param(names[k], "path", TRUE, "string")]
        withQuery == AddQueryParams(pathParams, ReqQueryNames(c))
        body == IF Includes(c, <<"req", ".", "body">>) /\ method \in {"post", "put", "patch"}
                THEN <<BodyParam>> ELSE <<>>
    IN  Operation(<<Upper(method), " ">> \o (IF endpoint = <<>> THEN <<"/">> ELSE endpoint),
                  NoDescription, withQuery \o body, ExpressResponses)

\* s.replace(/<type:([^>]+)>/g, '{$1}')
RECURSIVE ReplaceTyped(_, _)
ReplaceTyped(s, type) ==
    IF Len(s) = 0 THEN <<>>
    ELSE LET j == NextTok(s, 4, ">")
         IN  IF Len(s) >= 3 /\ SubSeq(s, 1, 3) = <<"<", type, ":">> /\ j > 4
             THEN <<"{">> \o SubSeq(s, 4, j - 1) \o <<"}">> \o ReplaceTyped(Tail0(s, j), type)
             ELSE <<s[1]>> \o ReplaceTyped(Tail(s), type)

\* DjangoCleanPath as it would be without the removal of the trailing slash
DjangoCleanPath_KeepsTrailingSlash(urlPattern) ==
    LET p0 == <<"/">> \o urlPattern
    IN  ReplaceTyped(ReplaceTyped(ReplaceTyped(ReplaceTyped(p0, "str"), "int"), "slug"), "uuid")

DjangoCleanPath(urlPattern) ==
    LET p0 == <<"/">> \o StripSuffix(urlPattern, <<"/">>)
    IN  ReplaceTyped(ReplaceTyped(ReplaceTyped(ReplaceTyped(p0, "str"), "int"), "slug"), "uuid")

\* the position of the first symbol at or after i that is "," or ")", Len(c) + 1 when none
RECURSIVE ViewEnd(_, _)
ViewEnd(c, i) ==
    IF i > Len(c) THEN i
    ELSE IF c[i] \in {",", ")"} THEN i
    ELSE ViewEnd(c, i + 1)

\* the literals of the matches of /path\s*\(\s*['"]([^'"]*)['"]\s*,\s*([^,)]+)/g, in order
RECURSIVE DjangoLiterals(_, _)
DjangoLiterals(c, i) ==
    IF i > Len(c) THEN <<>>
    ELSE LET open == SkipWs(c, i + 1)
             q1 == SkipWs(c, open + 1)
             q2 == NextQuote(c, q1 + 1)
             comma == SkipWs(c, q2 + 1)
             view == comma + 1
         IN  IF /\ c[i] = "path"
                /\ open <= Len(c) /\ c[open] = "("
                /\ q1 <= Len(c) /\ IsQuote(c[q1])
                /\ q2 > 0
                /\ comma <= Len(c) /\ c[comma] = ","
                /\ view <= Len(c) /\ c[view] \notin {",", ")"}
             THEN <<SubSeq(c, q1 + 1, q2 - 1)>> \o DjangoLiterals(c, ViewEnd(c, view))
             ELSE DjangoLiterals(c, i + 1)

DjangoOperation(method, cleanPath) ==
    Operation(<<Upper(method), " ">> \o cleanPath, NoDescription,
              PathParamsOf(cleanPath), FullResponses)

djangoMethods == <<"get", "post", "put", "patch", "delete">>

parseDjangoUrls(c) ==
    LET lits == DjangoLiterals(c, 1)
        Writes(k) == [m \in 1..Len(djangoMethods) |->
                         [key |-> DjangoCleanPath(lits[k]), method |-> djangoMethods[m],
                          op |-> DjangoOperation(djangoMethods[m], DjangoCleanPath(lits[k]))]]
    IN  PutAll(EmptyMap, Flatten([k \in 1..Len(lits) |-> Writes(k)]))

\* s.replace(/\$([a-zA-Z_][a-zA-Z0-9_]*)/g, '{$1}')
RECURSIVE ReplaceDollar(_)
ReplaceDollar(s) ==
    IF Len(s) = 0 THEN <<>>
    ELSE IF Len(s) >= 2 /\ s[1] = "$" /\ IsIdent(s[2])
         THEN <<"{", s[2], "}">> \o ReplaceDollar(Tail0(s, 2))
    ELSE <<s[1]>> \o ReplaceDollar(Tail(s))

EnsureLeadingSlash(s) == IF StartsWith(s, <<"/">>) THEN s ELSE <<"/">> \o s

\* the second replace of parsePlayFrameworkRoutes finds no '$name' left by the first
PlayCleanPath(pathPattern) == EnsureLeadingSlash(ReplaceDollar(ReplaceDollar(pathPattern)))

\* the names of originalPattern.match(/\?\s*q_o"([^"]+)=\$([^"]+)"/g), in order
RECURSIVE QueryMarkerNames(_)
QueryMarkerNames(s) ==
    IF Len(s) = 0 THEN <<>>
    ELSE LET q == SkipWs(s, 2)
             eq == NextTok(s, q + 2, "=")
             close == NextTok(s, eq + 2, "\"")
         IN  IF /\ s[1] = "?"
                /\ q + 1 <= Len(s) /\ s[q] = "q_o" /\ s[q + 1] = "\""
                /\ eq > q + 2 /\ eq + 1 <= Len(s) /\ s[eq + 1] = "$"
                /\ close > eq + 2
                /\ \A k \in (q + 2)..(close - 1) : s[k] # "\""
             THEN <<SubSeq(s, q + 2, eq - 1)>> \o QueryMarkerNames(Tail0(s, close))
             ELSE QueryMarkerNames(Tail(s))

extractPlayFrameworkParameters(cleanPath, originalPattern) ==
    LET names == QueryMarkerNames(originalPattern)
    IN  PathParamsOf(cleanPath)
          \o [k \in 1..Len(names) |-> Param(names[k], "query", FALSE, "string")]

PlayVerbs == {"GET", "POST", "PUT", "DELETE", "PATCH"}

\* the position of the first line break at or after i, Len(c) + 1 when none
RECURSIVE LineEnd(_, _)
LineEnd(c, i) ==
    IF i > Len(c) THEN i
    ELSE IF c[i] = "\n" THEN i
    ELSE LineEnd(c, i + 1)

\* the matches of /case\s+(GET|POST|PUT|DELETE|PATCH)\s*\(\s*p"([^"]+)"\s*\)\s*=>\s*([^\n]+)/g,
\* in order, as <<verb, pattern>>
RECURSIVE PlayCases(_, _)
PlayCases(c, i) ==
    IF i > Len(c) THEN <<>>
    ELSE LET v == SkipWs(c, i + 1)
             open == SkipWs(c, v + 1)
             pp == SkipWs(c, open + 1)
             q2 == NextTok(c, pp + 2, "\"")
             close == SkipWs(c, q2 + 1)
             arrow == SkipWs(c, close + 1)
             ctl == SkipWs(c, arrow + 2)
         IN  IF /\ c[i] = "case"
                /\ v > i + 1 /\ v <= Len(c) /\ c[v] \in PlayVerbs
                /\ open <= Len(c) /\ c[open] = "("
                /\ pp + 1 <= Len(c) /\ c[pp] = "p" /\ c[pp + 1] = "\""
                /\ q2 > pp + 2
                /\ close <= Len(c) /\ c[close] = ")"
                /\ arrow + 1 <= Len(c) /\ c[arrow] = "=" /\ c[arrow + 1] = ">"
                /\ ctl <= Len(c)
             THEN <<(<<c[v], SubSeq(c, pp + 2, q2 - 1)>>)>> \o PlayCases(c, LineEnd(c, ctl))
             ELSE PlayCases(c, i + 1)

parsePlayFrameworkRoutes(c) ==
    LET cases == PlayCases(c, 1)
        Write(k) == LET method == Lower(cases[k][1])
                        cleanPath == PlayCleanPath(cases[k][2])
                    IN  [key |-> cleanPath, method |-> method,
                         op |-> Operation(<<Upper(method), " ">> \o cleanPath, NoDescription,
                                          extractPlayFrameworkParameters(cleanPath, cases[k][2]),
                                          FullResponses)]
    IN  PutAll(EmptyMap, [k \in 1..Len(cases) |-> Write(k)])

\* s.replace(/:([a-zA-Z_][a-zA-Z0-9_]*)/g, '{$1}')
RECURSIVE ReplaceColon(_)
ReplaceColon(s) ==
    IF Len(s) = 0 THEN <<>>
    ELSE IF Len(s) >= 2 /\ s[1] = ":" /\ IsIdent(s[2])
         THEN <<"{", s[2], "}">> \o ReplaceColon(Tail0(s, 2))
    ELSE <<s[1]>> \o ReplaceColon(Tail(s))

\* s.replace(/\(\.[*+]\)/g, '{path}')
RECURSIVE ReplaceCatchAll(_)
ReplaceCatchAll(s) ==
    IF Len(s) = 0 THEN <<>>
    ELSE IF Len(s) >= 4 /\ s[1] = "(" /\ s[2] = "." /\ s[3] \in {"*", "+"} /\ s[4] = ")"
         THEN <<"{", "path", "}">> \o ReplaceCatchAll(Tail0(s, 4))
    ELSE <<s[1]>> \o ReplaceCatchAll(Tail(s))

StrapiCleanPath(routePath) == ReplaceCatchAll(ReplaceColon(EnsureLeadingSlash(routePath)))

\* `<key>:\s*['"]([^'"]*)['"]` at position i: <<position after the closing quote, value>>,
\* <<0, <<>>>> when it does not match
QuotedField(c, i, key) ==
    LET q1 == SkipWs(c, i + 2)
        q2 == NextQuote(c, q1 + 1)
    IN  IF /\ i >= 1 /\ i + 1 <= Len(c) /\ c[i] = key /\ c[i + 1] = ":"
           /\ q1 <= Len(c) /\ IsQuote(c[q1])
           /\ q2 > 0
        THEN <<q2 + 1, SubSeq(c, q1 + 1, q2 - 1)>>
        ELSE <<0, <<>>>>

\* `\s*,\s*` at position i: the position after it, 0 when it does not match
CommaAt(c, i) ==
    LET k == SkipWs(c, i)
    IN  IF i > 0 /\ k <= Len(c) /\ c[k] = "," THEN SkipWs(c, k + 1) ELSE 0

\* the matches of the route-object pattern of parseStrapiRoutes, in order,
\* as <<method, path, handler>>
RECURSIVE StrapiObjects(_, _)
StrapiObjects(c, i) ==
    IF i > Len(c) THEN <<>>
    ELSE LET m == QuotedField(c, SkipWs(c, i + 1), "method")
             p == QuotedField(c, CommaAt(c, m[1]), "path")
             h == QuotedField(c, CommaAt(c, p[1]), "handler")
             close == NextTok(c, h[1], "}")
         IN  IF c[i] = "{" /\ m[1] > 0 /\ p[1] > 0 /\ h[1] > 0 /\ close > 0
             THEN <<(<<m[2], p[2], h[2]>>)>> \o StrapiObjects(c, close + 1)
             ELSE StrapiObjects(c, i + 1)

\* match[1].toLowerCase() as a method key
MethodKey(m) == IF Len(m) = 1 THEN Lower(m[1]) ELSE ""

parseStrapiRoutes(c) ==
    LET objs == StrapiObjects(c, 1)
        Write(k) == LET method == MethodKey(objs[k][1])
                        cleanPath == StrapiCleanPath(objs[k][2])
                    IN  [key |-> cleanPath, method |-> method,
                         op |-> Operation(<<Upper(method), " ">> \o cleanPath,
                                          <<"Handler", ":", " ">> \o objs[k][3],
                                          PathParamsOf(cleanPath), FullResponses)]
    IN  PutAll(EmptyMap, [k \in 1..Len(objs) |-> Write(k)])

\* the handler pass of parseFile (Next.js API routes)
HandlerWrites(c, basePath) ==
    LET Of(m) == IF ExportsHandler(c, httpMethods[m])
                 THEN <<[key |-> basePath, method |-> httpMethods[m],
                         op |-> parseMethod(c, httpMethods[m])]>>
                 ELSE <<>>
    IN  Flatten([m \in 1..Len(httpMethods) |-> Of(m)])

\* the router pass of parseFile
RouterWrites(c, basePath) ==
    LET Of(m) == LET es == CallEndpoints(c, 1, <<>>, httpMethods[m])
                 IN  [k \in 1..Len(es) |->
                         [key |-> combineRouterPath(basePath, es[k]), method |-> httpMethods[m],
                          op |-> parseExpressMethod(c, httpMethods[m], es[k])]]
    IN  Flatten([m \in 1..Len(httpMethods) |-> Of(m)])

\* the app pass of parseFile
AppWrites(c) ==
    LET Of(m) == LET es == CallEndpoints(c, 1, <<"app">>, httpMethods[m])
                 IN  [k \in 1..Len(es) |->
                         [key |-> es[k], method |-> httpMethods[m],
                          op |-> parseExpressMethod(c, httpMethods[m], es[k])]]
    IN  Flatten([m \in 1..Len(httpMethods) |-> Of(m)])

IsUrlsPy(filePath) == EndsWith(filePath, <<"urls", ".", "py">>)
IsStrapiRouteFile(filePath) == Includes(filePath, <<"/", "routes", "/">>) /\ IsSourceName(filePath)

\* parseFile after the file has been read: the three scanning passes, then the
\* dialect parsers, each merged with Object.assign
parseContent(c, filePath) ==
    LET basePath == getRoutePath(filePath)
        a1 == PutAll(EmptyMap, HandlerWrites(c, basePath))
        a2 == PutAll(a1, RouterWrites(c, basePath))
        a3 == PutAll(a2, AppWrites(c))
        a4 == IF IsUrlsPy(filePath) THEN ObjectAssign(a3, parseDjangoUrls(c)) ELSE a3
        a5 == IF IsRouterScala(filePath) THEN ObjectAssign(a4, parsePlayFrameworkRoutes(c)) ELSE a4
        a6 == IF IsStrapiRouteFile(filePath) THEN ObjectAssign(a5, parseStrapiRoutes(c)) ELSE a5
    IN  a6

\* parseFile as it would be if an unreadable file were parsed all the same
parseFile_ParsesUnreadable(t, filePath) == parseContent(ReadFileSync(t, filePath), filePath)

\* parseFile: {} for a file that cannot be read
parseFile(t, filePath) ==
    IF Readable(t, filePath) THEN parseContent(ReadFileSync(t, filePath), filePath) ELSE EmptyMap

----------------------------------------------------------------------------
(* The run of the command-line program on one project tree:                *)
(*   new UniversalSwaggerGenerator(projectPath); generator.save(out)       *)

VARIABLES
    tree,            \* the project tree under projectPath
    pc,              \* where the run is
    cwd,             \* process.cwd(): "caller" or "project"
    originalCwd,     \* this.originalCwd
    projectType,     \* this.projectType
    customPatterns,  \* this.customPatterns
    djangoRoot,      \* this.djangoRoot
    files,           \* the route files of generate()
    idx,             \* the position of files.forEach
    paths,           \* spec.paths
    result,          \* what save() returned: "none", "null" or "spec"
    written,         \* the output file has been written
    exitCode,        \* the exit code of the process, -1 while it runs
    config,          \* this.config.info.title, <<>> while this.config is not assigned
    error,           \* the exception the main program caught, "none" when it caught none
    arg,             \* the argument of a function applied on its own
    res,             \* and its result
    roots,           \* library use: the project tree of each root directory
    gens,            \* library use: the generator objects of the process
    log              \* library use: the calls made so far, with their outcomes

runvars == <<tree, cwd, originalCwd, projectType, customPatterns, djangoRoot,
             files, idx, paths, result, written, exitCode, config, error>>

fnvars == <<arg, res>>

libvars == <<roots, gens, log>>

vars == <<pc, runvars, fnvars, libvars>>

\* loadConfig: neither the read nor the JSON.parse of an existing package.json is guarded
loadConfigThrows(t) ==
    /\ ExistsSync(t, Rel(PackageJson))
    /\ ~Readable(t, Rel(PackageJson)) \/ ~JsonParses(ReadFileSync(t, Rel(PackageJson)))

DefaultTitle == <<"API", " ", "Documentation">>

\* JSON.parse(text).name of a manifest that parses, <<>> when it has no name
ManifestName(c) ==
    LET key == <<"\"", "name", "\"", ":">>
        At(k) == SubSeq(c, k, k + 3) = key
        i == CHOOSE k \in 1..Len(c) : At(k) /\ \A j \in 1..(k - 1) : ~At(j)
        q1 == SkipWs(c, i + 4)
        q2 == NextQuote(c, q1 + 1)
    IN  IF Includes(c, key) /\ q1 <= Len(c) /\ IsQuote(c[q1]) /\ q2 > 0
        THEN SubSeq(c, q1 + 1, q2 - 1) ELSE <<>>

\* the title of loadConfig when it returns (process.env.API_TITLE is not set):
\* packageJson.name || 'API Documentation'
loadConfig(t) ==
    LET name == IF ExistsSync(t, Rel(PackageJson))
                THEN ManifestName(ReadFileSync(t, Rel(PackageJson))) ELSE <<>>
    IN  IF name # <<>> THEN name ELSE DefaultTitle

\* no function is being applied on its own
FnIdle == arg = <<>> /\ res = <<>>

\* the class is not used as a library
LibIdle == roots = <<>> /\ gens = <<>> /\ log = <<>>

\* the process before the constructor is called
RunInit ==
    /\ pc = "start"
    /\ FnIdle
    /\ LibIdle
    /\ cwd = "caller"
    /\ originalCwd = "caller"
    /\ projectType = "none"
    /\ customPatterns = <<>>
    /\ djangoRoot = <<>>
    /\ files = <<>>
    /\ idx = 1
    /\ paths = EmptyMap
    /\ result = "none"
    /\ written = FALSE
    /\ exitCode = -1
    /\ config = <<>>
    /\ error = "none"

Init == tree \in Trees /\ RunInit

\* the constructor; an exception of loadConfig reaches the catch of the main program
Construct ==
    /\ pc = "start"
    /\ originalCwd' = cwd
    /\ cwd' = "project"
    /\ projectType' = detectProjectType(tree)
    /\ customPatterns' = CustomPatternsOf(tree)
    /\ djangoRoot' = IF detectProjectType(tree) = "django" THEN DjangoRootOf(tree) ELSE <<>>
    /\ IF loadConfigThrows(tree)
       THEN pc' = "exited" /\ exitCode' = 1 /\ error' = "SyntaxError" /\ config' = config
       ELSE pc' = "constructed" /\ exitCode' = exitCode /\ error' = error
              /\ config' = loadConfig(tree)
    /\ UNCHANGED <<tree, files, idx, paths, result, written, fnvars, libvars>>

\* save() on an unsupported project: generate() returns null, save() returns null
SaveUnsupported ==
    /\ pc = "constructed"
    /\ projectType = "unsupported"
    /\ cwd' = originalCwd
    /\ result' = "null"
    /\ pc' = "saved"
    /\ UNCHANGED <<tree, originalCwd, projectType, customPatterns, djangoRoot,
                   files, idx, paths, written, exitCode, config, error, fnvars, libvars>>

\* save() calls generate(): the spec is created and the route files are listed
GenerateBegin ==
    /\ pc = "constructed"
    /\ projectType # "unsupported"
    /\ files' = getRouteFiles(tree, projectType, customPatterns, djangoRoot)
    /\ idx' = 1
    /\ paths' = EmptyMap
    /\ pc' = "merging"
    /\ UNCHANGED <<tree, cwd, originalCwd, projectType, customPatterns, djangoRoot,
                   result, written, exitCode, config, error, fnvars, libvars>>

\* one iteration of files.forEach in generate()
MergeFile ==
    /\ pc = "merging"
    /\ idx <= Len(files)
    /\ paths' = ObjectAssign(paths, parseFile(tree, files[idx]))
    /\ idx' = idx + 1
    /\ UNCHANGED <<tree, pc, cwd, originalCwd, projectType, customPatterns, djangoRoot,
                   files, result, written, exitCode, config, error, fnvars, libvars>>

\* generate() returns the spec; save() restores the directory and writes the file
SaveWrite ==
    /\ pc = "merging"
    /\ idx > Len(files)
    /\ cwd' = originalCwd
    /\ written' = TRUE
    /\ result' = "spec"
    /\ pc' = "saved"
    /\ UNCHANGED <<tree, originalCwd, projectType, customPatterns, djangoRoot,
                   files, idx, paths, exitCode, config, error, fnvars, libvars>>

\* the main program: if (!result) process.exit(1)
Exit ==
    /\ pc = "saved"
    /\ exitCode' = IF result = "null" THEN 1 ELSE 0
    /\ pc' = "exited"
    /\ UNCHANGED <<tree, cwd, originalCwd, projectType, customPatterns, djangoRoot,
                   files, idx, paths, result, written, config, error, fnvars, libvars>>

Next == Construct \/ SaveUnsupported \/ GenerateBegin \/ MergeFile \/ SaveWrite \/ Exit

Spec == Init /\ [][Next]_vars

\* the runs on the trees of an App Router project
InitAppRouter == tree \in AppRouterTrees /\ RunInit

SpecAppRouter == InitAppRouter /\ [][Next]_vars

\* the runs on the trees with a package.json
InitManifest == tree \in ManifestTrees /\ RunInit

SpecManifest == InitManifest /\ [][Next]_vars

\* the runs on the trees of a Strapi or an auto-detected project
InitDiscovery == tree \in DiscoveryTrees /\ RunInit

SpecDiscovery == InitDiscovery /\ [][Next]_vars

----------------------------------------------------------------------------
(* Functions applied on their own, to arguments drawn from bounded sets.   *)

\* the run of the program is not started
RunIdle ==
    /\ LibIdle
    /\ tree = {}
    /\ cwd = "caller"
    /\ originalCwd = "caller"
    /\ projectType = "none"
    /\ customPatterns = <<>>
    /\ djangoRoot = <<>>
    /\ files = <<>>
    /\ idx = 1
    /\ paths = EmptyMap
    /\ result = "none"
    /\ written = FALSE
    /\ exitCode = -1
    /\ config = <<>>
    /\ error = "none"

\* sequences over S of length at most n
SeqsUpTo(S, n) == UNION {[1..k -> S] : k \in 0..n}

(* A route path as a sequence of segments: a word <<"word", w>> or a       *)
(* placeholder <<"param", type, name>>.                                    *)
PathWords == {"login", "user"}
ParamNames == {"pk", "id"}
DjangoTypes == {"str", "int", "slug", "uuid"}

\* the largest number of segments of a generated route path
MaxSegs == 2

DjangoElems == {<<"word", w>> : w \in PathWords}
                 \cup {<<"param", t, n>> : t \in DjangoTypes, n \in ParamNames}

IsParamElem(e) == e[1] = "param"

\* the segment as the Django dialect writes it, and as the map should hold it
DjangoText(e) == IF IsParamElem(e) THEN <<"<", e[2], ":", e[3], ">">> ELSE <<e[2]>>
CanonText(e) == IF IsParamElem(e) THEN <<"{", e[3], "}">> ELSE <<e[2]>>

\* a urls.py literal: the segments joined by '/', with or without a trailing slash
DjangoLiteral(a) ==
    Join([k \in 1..Len(a.elems) |-> DjangoText(a.elems[k])], "/")
      \o (IF a.trailing THEN <<"/">> ELSE <<>>)

CanonKey(elems) == <<"/">> \o Join([k \in 1..Len(elems) |-> CanonText(elems[k])], "/")

CanonParams(elems) ==
    LET ps == SelectSeq(elems, IsParamElem)
    IN  [k \in 1..Len(ps) |-> Param(<<ps[k][3]>>, "path", TRUE, "string")]

DjangoArgs == [elems : SeqsUpTo(DjangoElems, MaxSegs), trailing : BOOLEAN]

UrlsPy == <<"accounts", "/", "urls", ".", "py">>

InitDjango ==
    /\ pc = "django"
    /\ arg \in DjangoArgs
    /\ res = <<>>
    /\ RunIdle

\* parseFile on a urls.py that holds one path() entry
ApplyDjango ==
    /\ pc = "django"
    /\ res' = parseContent(DjangoEntry(DjangoLiteral(arg), "view"), UrlsPy)
    /\ pc' = "django-done"
    /\ UNCHANGED <<runvars, libvars, arg>>

NextDjango == ApplyDjango

SpecDjango == InitDjango /\ [][NextDjango]_vars

\* C4: a path() entry yields exactly five Operations (get, post, put, patch,
\* delete) under "/" + literal without its trailing slash and with every typed
\* placeholder rewritten to {name}; each carries exactly one required path
\* parameter per placeholder.
C4_DjangoEntryYieldsFiveOperations ==
    pc = "django-done" =>
        /\ DOMAIN res = {CanonKey(arg.elems)}
        /\ DOMAIN res[CanonKey(arg.elems)] = {"get", "post", "put", "patch", "delete"}
        /\ \A m \in DOMAIN res[CanonKey(arg.elems)] :
               res[CanonKey(arg.elems)][m].parameters = CanonParams(arg.elems)

\* C4 witness: path('user/<int:pk>/', ...) has been parsed to /user/{pk}
C4_Witness ==
    /\ pc = "django-done"
    /\ arg = [elems |-> <<(<<"word", "user">>), (<<"param", "int", "pk">>)>>, trailing |-> TRUE]
    /\ <<"/", "user", "/", "{", "pk", "}">> \in DOMAIN res

\* the largest number of segments of a base path
MaxBaseSegs == 3

BaseWords == {<<"auth">>, <<"users">>}

\* the sub-paths of a router call, with the segments each adds
SubPaths == {[text |-> <<>>, segs |-> <<>>],
             [text |-> <<"/">>, segs |-> <<>>],
             [text |-> <<"/", "login">>, segs |-> <<(<<"login">>)>>],
             [text |-> <<"login">>, segs |-> <<(<<"login">>)>>],
             [text |-> <<"/", ":", "id">>, segs |-> <<(<<":", "id">>)>>],
             [text |-> <<"/", "auth", "/", "me">>, segs |-> <<(<<"auth">>), (<<"me">>)>>]}

\* a base path is rooted ("/auth/auth") or relative ("auth/auth"); the empty
\* relative base does not occur, getRoutePath returns "/" for it
CombineArgs == {a \in [segs : SeqsUpTo(BaseWords, MaxBaseSegs), rooted : BOOLEAN, sub : SubPaths] :
                    a.rooted \/ Len(a.segs) > 0}

BaseText(a) == (IF a.rooted THEN <<"/">> ELSE <<>>) \o Join(a.segs, "/")

EndsInDuplicate(segs) == Len(segs) >= 2 /\ segs[Len(segs)] = segs[Len(segs) - 1]

\* the path the claim expects: one duplicated trailing segment dropped, then the sub-path
ExpectedCombined(a) ==
    LET kept == IF EndsInDuplicate(a.segs) THEN SubSeq(a.segs, 1, Len(a.segs) - 1) ELSE a.segs
    IN  (IF a.rooted THEN <<"/">> ELSE <<>>) \o Join(kept \o a.sub.segs, "/")

InitCombine ==
    /\ pc = "combine"
    /\ arg \in CombineArgs
    /\ res = <<>>
    /\ RunIdle

ApplyCombine ==
    /\ pc = "combine"
    /\ res' = combineRouterPath(BaseText(arg), arg.sub.text)
    /\ pc' = "combine-done"
    /\ UNCHANGED <<runvars, libvars, arg>>

NextCombine == ApplyCombine

SpecCombine == InitCombine /\ [][NextCombine]_vars

\* C6: combineRouterPath drops exactly one of two identical trailing segments of
\* the base path before it appends the sub-path, and appends to any other base
\* path unchanged.
C6_RouterMountCollapsing == pc = "combine-done" => res = ExpectedCombined(arg)

\* C6 witness: /auth/auth with /login has been combined to /auth/login
C6_Witness ==
    /\ pc = "combine-done"
    /\ arg.segs = <<(<<"auth">>), (<<"auth">>)>> /\ arg.rooted /\ arg.sub.text = <<"/", "login">>
    /\ res = <<"/", "auth", "/", "login">>

----------------------------------------------------------------------------
(* The constructor on the trees with .php sources and with the manifests   *)
(* of other ecosystems.                                                    *)

\* the first k .php files of a directory
PhpIds(dir, k) == TreeOf({PhpFiles(dir)[j].path : j \in 1..k})

ClassifyTrees ==
    {PhpIds(<<"legacy">>, v) \cup PhpIds(<<".", "old">>, h) \cup TreeOf(m) \cup TreeOf(e) :
        v \in 0..MaxPhp, h \in 0..MaxPhp,
        m \in {{}} \cup {{x} : x \in OtherMarkers \cup {ComposerJson}},
        e \in {{}, {ServerJs}}}

InitClassify == tree \in ClassifyTrees /\ RunInit

NextClassify == Construct

SpecClassify == InitClassify /\ [][NextClassify]_vars

\* a manifest of another ecosystem is at the root of the tree
HasMarker(t) == \E i \in t : Universe[i].path \in OtherMarkers \cup {ComposerJson}

\* the .php files anywhere in the tree
AllPhp(t) == {i \in t : IsPhp(Universe[i].path)}

\* the .php files that are not beneath a hidden directory or node_modules
VisiblePhp(t) ==
    {i \in AllPhp(t) : \A d \in Range(DirsBetween(Universe[i].path, Here)) :
                            d[1] # "." /\ d # <<"node_modules">>}

\* C11 as stated: the classification is unsupported exactly when a manifest of
\* another ecosystem is at the root or more than 5 .php files exist anywhere
\* under the root.
C11_UnsupportedCountsPhpAnywhere ==
    pc # "start" =>
        (projectType = "unsupported" <=> (HasMarker(tree) \/ Cardinality(AllPhp(tree)) > 5))

\* C11: the classification is unsupported exactly when a manifest of another
\* ecosystem is at the root or more than 5 .php files exist under the root
\* outside hidden directories and node_modules; 5 such files and no manifest
\* are not rejected.
C11_UnsupportedExactlyWhen ==
    pc # "start" =>
        (projectType = "unsupported" <=> (HasMarker(tree) \/ Cardinality(VisiblePhp(tree)) > 5))

\* C11 witness: a tree with exactly 5 .php files and no manifest has been
\* classified, and not as unsupported
C11_Witness ==
    /\ pc = "constructed"
    /\ Cardinality(AllPhp(tree)) = 5 /\ Cardinality(VisiblePhp(tree)) = 5
    /\ ~HasMarker(tree)
    /\ projectType # "unsupported"

----------------------------------------------------------------------------
(* Properties of the run.                                                  *)

\* generate() has returned a spec: every discovered file has been merged
MapComplete == pc \in {"saved", "exited"} /\ result = "spec"

\* what each discovered file contributes to the map, in discovery order
Contributions == [k \in 1..Len(files) |-> parseFile(tree, files[k])]

\* the files among the contributions cs that produced an Operation for (p, m)
Producers(cs, p, m) == {k \in 1..Len(cs) : p \in DOMAIN cs[k] /\ m \in DOMAIN cs[k][p]}

SetMax(S) == CHOOSE x \in S : \A y \in S : y <= x

\* C1: a tree whose only file is app/api/users/route.ts exporting GET and POST
\* yields a paths map with exactly the key /users holding exactly get and post.
C1_UsersRouteYieldsSlashUsers ==
    (MapComplete /\ tree = TreeOf({UsersRoute})) =>
        /\ DOMAIN paths = {<<"/", "users">>}
        /\ DOMAIN paths[<<"/", "users">>] = {"get", "post"}

\* C2: once every discovered file has been merged, the method map of every path
\* holds every method that any file contributed for that path.
C2_MethodsMergedKeyByKey ==
    MapComplete =>
        LET cs == Contributions
        IN  \A k \in 1..Len(cs) : \A p \in DOMAIN cs[k] :
                /\ p \in DOMAIN paths
                /\ DOMAIN cs[k][p] \subseteq DOMAIN paths[p]

\* C3: a (path, method) pair that more than one file produced is in the final
\* map with the Operation of the last file that produced it.
C3_LastWriteWins ==
    MapComplete =>
        LET cs == Contributions
        IN  \A k \in 1..Len(cs) : \A p \in DOMAIN cs[k] : \A m \in DOMAIN cs[k][p] :
                Cardinality(Producers(cs, p, m)) >= 2 =>
                    /\ p \in DOMAIN paths
                    /\ m \in DOMAIN paths[p]
                    /\ paths[p][m] = cs[SetMax(Producers(cs, p, m))][p][m]

\* a key keeps a placeholder in the syntax of a dialect
KeepsDialectPlaceholder(key) ==
    \/ \E i \in 1..(Len(key) - 1) : key[i] \in {":", "$"} /\ IsIdent(key[i + 1])
    \/ \E i \in 1..Len(key) : key[i] \in {"[", "]", "<", ">"}

\* C5: no key of the final map keeps a placeholder in the syntax of a dialect
\* ([name], :name, $name, <type:name>): each appears as {name}.
C5_NoDialectPlaceholderInKeys ==
    MapComplete => \A key \in DOMAIN paths : ~KeepsDialectPlaceholder(key)

GlobDirOf(type) ==
    CASE type = "express" -> <<"routes">>
      [] type = "express-src" -> <<"src", "/", "routes">>
      [] type = "nextjs-pages" -> <<"pages", "/", "api">>

\* C8: for express, express-src and nextjs-pages, discovery returns exactly the
\* files at any depth under the dialect's directory whose name ends in .ts or .js.
C8_GlobFindsSourceFilesAtAnyDepth ==
    (pc \in {"merging", "saved", "exited"} /\ projectType \in {"express", "express-src", "nextjs-pages"}) =>
        {Normalize(files[k]) : k \in 1..Len(files)} =
            {Universe[i].path : i \in {j \in tree : /\ IsUnder(Universe[j].path, GlobDirOf(projectType))
                                                    /\ IsSourceName(Universe[j].path)}}

\* the dialects in the order of the decision policy, and the condition of each
RuleOrder == <<"unsupported", "strapi", "play-framework", "django", "nextjs-app", "nextjs-pages",
               "express", "express-src", "express-modules", "express-backend-modules",
               "auto-detected", "unknown">>

RuleHolds(t, rule) ==
    CASE rule = "unsupported" -> isUnsupportedProject(t)
      [] rule = "strapi" -> hasStrapiProject(t)
      [] rule = "play-framework" -> hasPlayFrameworkProject(t)
      [] rule = "django" -> hasDjangoProject(t)
      [] rule = "nextjs-app" -> ExistsSync(t, <<"app", "/", "api">>)
      [] rule = "nextjs-pages" -> ExistsSync(t, <<"pages", "/", "api">>)
      [] rule = "express" -> ExistsSync(t, <<"routes">>)
      [] rule = "express-src" -> ExistsSync(t, <<"src", "/", "routes">>)
      [] rule = "express-modules" -> hasRouterFiles(t, <<"src", "/", "modules">>)
      [] rule = "express-backend-modules" -> hasRouterFiles(t, <<"backend", "/", "src", "/", "modules">>)
      [] rule = "auto-detected" -> Len(scanForRoutePatterns(t)) > 0
      [] rule = "unknown" -> TRUE

SatisfiedRules(t) == {k \in 1..Len(RuleOrder) : RuleHolds(t, RuleOrder[k])}

SetMin(S) == CHOOSE x \in S : \A y \in S : x <= y

\* C9: the dialect of a constructed generator is that of the earliest rule of the
\* decision policy that the tree satisfies.
C9_FirstMatchWins ==
    pc # "start" => projectType = RuleOrder[SetMin(SatisfiedRules(tree))]

\* C9 witness: a generator constructed on a tree that satisfies several rules
\* besides the fallback
C9_Witness ==
    /\ pc = "constructed"
    /\ Cardinality(SatisfiedRules(tree)) >= 3
    /\ projectType = "django"

\* C10: a run on an unsupported or unknown project returns no spec, writes no
\* output file and exits non-zero.
C10_NoMapForUnsupportedOrUnknown ==
    (pc = "exited" /\ projectType \in {"unsupported", "unknown"}) =>
        /\ result = "null"
        /\ ~written
        /\ exitCode = 1

\* the discovered file cannot be read
Unreadable(f) == Normalize(f) \in UnreadablePaths

\* the maps of the first n discovered files that can be read, assigned in
\* discovery order
RECURSIVE MergedReadable(_, _, _)
MergedReadable(t, fs, n) ==
    IF n = 0 THEN EmptyMap
    ELSE IF Unreadable(fs[n]) THEN MergedReadable(t, fs, n - 1)
    ELSE ObjectAssign(MergedReadable(t, fs, n - 1), parseContent(ReadFileSync(t, fs[n]), fs[n]))

\* C13: a discovered file that cannot be read contributes no entry, leaves the
\* entries of the earlier files unchanged and does not stop the later files
\* from being merged: at every step the map is the merge of the readable files
\* among those processed so far, and in the end of all readable files.
C13_UnreadableFileIsSkipped ==
    /\ pc = "merging" => paths = MergedReadable(tree, files, idx - 1)
    /\ MapComplete => paths = MergedReadable(tree, files, Len(files))

\* C13 witness: the unreadable file was discovered between two readable ones,
\* and the final map holds the entries of both
C13_Witness ==
    /\ MapComplete
    /\ Len(files) = 3 /\ Unreadable(files[2])
    /\ UsersIdRoute \in {Normalize(files[1])} /\ UsersRoute \in {Normalize(files[3])}
    /\ Cardinality(DOMAIN paths) = 2

\* the tree has a package.json that JSON.parse rejects
HasBrokenManifest(t) ==
    IsFile(t, PackageJson) /\ ~JsonParses(ReadFileSync(t, PackageJson))

\* C12: a malformed package.json never makes the construction raise: the parse
\* failure is caught and the configuration holds the default title.
C12_MalformedManifestUsesDefaults ==
    (pc # "start" /\ HasBrokenManifest(tree)) => (error = "none" /\ config = DefaultTitle)

\* the keys the calls on an object named router give the file, per method
RouterObjectKeys(c, basePath, method) ==
    LET es == CallEndpoints(c, 1, <<"router">>, method)
    IN  {combineRouterPath(basePath, es[k]) : k \in 1..Len(es)}

\* C14: a call app.<verb>('<p>') in a discovered file is recorded by that file
\* under the key <p> for that verb, and not under the key made of the file's
\* base path and <p>.
C14_AppCallsKeyedVerbatim ==
    MapComplete =>
        \A k \in 1..Len(files) : \A m \in Range(httpMethods) :
            LET c == ReadFileSync(tree, files[k])
                base == getRoutePath(files[k])
                es == CallEndpoints(c, 1, <<"app">>, m)
                from == parseFile(tree, files[k])
            IN  \A e \in 1..Len(es) :
                    LET prefixed == combineRouterPath(base, es[e])
                    IN  /\ es[e] \in DOMAIN from /\ m \in DOMAIN from[es[e]]
                        /\ (prefixed # es[e] /\ prefixed \notin RouterObjectKeys(c, base, m))
                             => ~(prefixed \in DOMAIN from /\ m \in DOMAIN from[prefixed])

----------------------------------------------------------------------------
(* parseFile on a router file with one router call.                        *)

\* the largest number of req.query accesses of a generated file
MaxQuery == 2

QueryNames == {"id", "page"}

ExpressElems == {<<"word", "users">>} \cup {<<"param", n>> : n \in ParamNames}

ExpressText(e) == IF IsParamElem(e) THEN <<":", e[2]>> ELSE <<e[2]>>

ExpressArgs == [verb : Range(httpMethods), elems : SeqsUpTo(ExpressElems, MaxSegs),
                query : SeqsUpTo(QueryNames, MaxQuery), body : BOOLEAN]

\* the literal path of the call
ExpressEndpoint(a) == <<"/">> \o Join([k \in 1..Len(a.elems) |-> ExpressText(a.elems[k])], "/")

\* router.<verb>('<path>', h); then the accesses to req.query and req.body
RouterFileText(a) ==
    Call("router", a.verb, ExpressEndpoint(a))
      \o Flatten([k \in 1..Len(a.query) |-> ReqQuery(a.query[k])])
      \o (IF a.body THEN ReqBody ELSE <<>>)

InitExpress ==
    /\ pc = "express"
    /\ arg \in ExpressArgs
    /\ res = <<>>
    /\ RunIdle

\* parseFile on the router file; res is the Operation of the call
ApplyExpress ==
    /\ pc = "express"
    /\ LET from == parseContent(RouterFileText(arg), AuthRouter)
           key == combineRouterPath(getRoutePath(AuthRouter), ExpressEndpoint(arg))
       IN  res' = from[key][arg.verb]
    /\ pc' = "express-done"
    /\ UNCHANGED <<runvars, libvars, arg>>

NextExpress == ApplyExpress

SpecExpress == InitExpress /\ [][NextExpress]_vars

InPath(q) == q.in = "path"
InQuery(q) == q.in = "query"
InBody(q) == q.in = "body"

\* C15: the path parameters of a router-call Operation are the :name tokens of
\* its literal path, in order and required; its query parameters are the names
\* read as req.query.<name> in the file, each once and optional; it has the
\* body parameter exactly when the verb is post, put or patch and the file
\* reads req.body.
C15_ExpressParameterHints ==
    pc = "express-done" =>
        LET names == SelectSeq(arg.elems, IsParamElem)
            query == SelectSeq(res.parameters, InQuery)
        IN  /\ SelectSeq(res.parameters, InPath)
                 = [k \in 1..Len(names) |-> Param(<<names[k][2]>>, "path", TRUE, "string")]
            /\ Range(query) = {Param(<<n>>, "query", FALSE, "string") : n \in Range(arg.query)}
            /\ Len(query) = Cardinality(Range(arg.query))
            /\ SelectSeq(res.parameters, InBody)
                 = IF arg.body /\ arg.verb \in {"post", "put", "patch"} THEN <<BodyParam>> ELSE <<>>

----------------------------------------------------------------------------
(* parseFile on a route file of exported functions.                        *)

\* the largest number of exported functions of a generated file
MaxExports == 2

\* function names: the handler names of Next.js, and names that are not
\* ("getUsers" is the symbols "get" and "Users")
FunctionNames == {<<"GET">>, <<"POST">>, <<"PUT">>, <<"DELETE">>, <<"PATCH">>,
                  <<"get", "Users">>, <<"helper">>, <<"handle", "GET">>}

\* export function <NAME>() {}
ExportSyncFn(name) == <<"export", " ", "function", " ">> \o name \o <<"(", ")", " ", "{", "}", "\n">>

HandlerArgs == SeqsUpTo([name : FunctionNames, async : BOOLEAN], MaxExports)

RouteFileText(fns) ==
    Flatten([k \in 1..Len(fns) |->
                IF fns[k].async THEN ExportFn(fns[k].name) ELSE ExportSyncFn(fns[k].name)])

InitHandler ==
    /\ pc = "handler"
    /\ arg \in HandlerArgs
    /\ res = <<>>
    /\ RunIdle

\* parseFile on app/api/users/route.ts with the exported functions
ApplyHandler ==
    /\ pc = "handler"
    /\ res' = parseContent(RouteFileText(arg), UsersRoute)
    /\ pc' = "handler-done"
    /\ UNCHANGED <<runvars, libvars, arg>>

NextHandler == ApplyHandler

SpecHandler == InitHandler /\ [][NextHandler]_vars

\* the function is named after the verb, in capitals as Next.js has it
NamedAfter(name, verb) == name = <<Upper(verb)>>

\* C16: the file yields an Operation for a verb at its base path exactly when it
\* holds an exported async function named after that verb; an exported async
\* function of any other name yields none.
C16_HandlerNamedAfterVerb ==
    pc = "handler-done" =>
        \A m \in Range(httpMethods) :
            (getRoutePath(UsersRoute) \in DOMAIN res /\ m \in DOMAIN res[getRoutePath(UsersRoute)])
              <=> \E k \in 1..Len(arg) : arg[k].async /\ NamedAfter(arg[k].name, m)

----------------------------------------------------------------------------
(* Properties of discovery and of the keys of the final map.               *)

\* getRouteFiles() has returned
Discovered == pc = "merging" \/ MapComplete

\* the directories on the way to a discovered file
DirsOf(f) == LET segs == Segs(f) IN SubSeq(segs, 1, Len(segs) - 1)

\* C17: for the nextjs-app dialect, discovery returns exactly the files under
\* app/api that are named route.ts or route.js; a file whose name only ends in
\* route.ts or route.js is not returned.
C17_AppRouterFilesNamedRoute ==
    (Discovered /\ projectType = "nextjs-app") =>
        {Normalize(files[k]) : k \in 1..Len(files)} =
            {Universe[i].path : i \in {j \in tree :
                /\ IsUnder(Universe[j].path, <<"app", "/", "api">>)
                /\ BaseName(Universe[j].path) \in {<<"route", ".", "ts">>, <<"route", ".", "js">>}}}

\* C18: no discovered file lies beneath a hidden directory, node_modules or
\* __pycache__.
C18_NoFileBeneathSkippedDirectory ==
    Discovered =>
        \A k \in 1..Len(files) : \A d \in Range(DirsOf(files[k])) :
            d[1] # "." /\ d \notin {<<"node_modules">>, <<"__pycache__">>}

PlayRouter == <<"app", "/", "controllers", "/", "v1", "/", "Router", ".", "scala">>

\* C19: in a Play project whose Router.scala holds
\* case GET(p"/case/$caseId" ? q_o"select=$select") => ..., the final map has a
\* get Operation at /case/{caseId} with the required path parameter caseId and
\* the optional query parameter select.
C19_PlayQueryMarkers ==
    (MapComplete /\ projectType = "play-framework" /\ TreeOf({PlayRouter}) \subseteq tree) =>
        LET key == <<"/", "case", "/", "{", "caseId", "}">>
        IN  /\ key \in DOMAIN paths
            /\ "get" \in DOMAIN paths[key]
            /\ paths[key]["get"].parameters = <<Param(<<"caseId">>, "path", TRUE, "string"),
                                                Param(<<"select">>, "query", FALSE, "string")>>

\* C20: no key of the final map has two slashes in a row, and no key but the
\* root path "/" ends in a slash.
C20_KeysHaveNormalSeparators ==
    MapComplete =>
        \A key \in DOMAIN paths :
            /\ \A i \in 1..(Len(key) - 1) : ~(key[i] = "/" /\ key[i + 1] = "/")
            /\ key = <<"/">> \/ key[Len(key)] # "/"

----------------------------------------------------------------------------
(* The .NET generator, dotnet-openapi-generator.js as README-DOTNET.md     *)
(* lists it: parseController on one controller file.  An identifier is a   *)
(* run of identifier symbols: HttpGet is "Http", "Get" and GetAll is       *)
(* "Get", "All".                                                           *)

\* the position after the run of identifier symbols that starts at i (\w+)
RECURSIVE WordEnd(_, _)
WordEnd(c, i) == IF i <= Len(c) /\ IsIdent(c[i]) THEN WordEnd(c, i + 1) ELSE i

\* s.toLowerCase()
ToLowerCase(s) == [k \in 1..Len(s) |-> Lower(s[k])]

\* s.replace(pat, rep) for a string pattern: the first occurrence only
ReplaceFirst(s, pat, rep) ==
    IF ~Includes(s, pat) THEN s
    ELSE LET At(i) == SubSeq(s, i, i + Len(pat) - 1) = pat
             i == CHOOSE k \in 1..Len(s) : At(k) /\ \A j \in 1..(k - 1) : ~At(j)
         IN  SubSeq(s, 1, i - 1) \o rep \o Tail0(s, i + Len(pat) - 1)

\* s.replace(/^\/+|\/+$/g, '')
RECURSIVE StripSlashes(_)
StripSlashes(s) ==
    IF Len(s) > 0 /\ s[1] = "/" THEN StripSlashes(Tail(s))
    ELSE IF Len(s) > 0 /\ s[Len(s)] = "/" THEN StripSlashes(SubSeq(s, 1, Len(s) - 1))
    ELSE s

\* combineRoutes as it would be without the return for an empty action route
combineRoutes_NoEmptyActionCase(controllerRoute, actionRoute) ==
    IF controllerRoute = <<>> /\ actionRoute = <<>> THEN <<"/">>
    ELSE IF controllerRoute = <<>> THEN actionRoute
    ELSE <<"/">> \o StripSlashes(controllerRoute) \o <<"/">> \o StripSlashes(actionRoute)

combineRoutes(controllerRoute, actionRoute) ==
    IF controllerRoute = <<>> /\ actionRoute = <<>> THEN <<"/">>
    ELSE IF controllerRoute = <<>> THEN actionRoute
    ELSE IF actionRoute = <<>> THEN controllerRoute
    ELSE <<"/">> \o StripSlashes(controllerRoute) \o <<"/">> \o StripSlashes(actionRoute)

DotNetResponses == {200, 400, 401, 404, 500}

\* the replace of {name} by {$1} leaves the path as it is; extractControllerParameters
\* is called with an empty content and finds the path parameters only
addControllerRoute(map, filePath, controllerRoute, actionRoute, actionName, method) ==
    LET combined == combineRoutes(controllerRoute, actionRoute)
        controllerName == ToLowerCase(ReplaceFirst(StripSuffix(BaseName(filePath), <<".", "cs">>),
                                                   <<"Controller">>, <<>>))
        replaced == ReplaceFirst(combined, <<"[", "controller", "]">>, controllerName)
        fullPath == IF replaced = <<>> \/ replaced = <<"/">>
                    THEN <<"/">> \o controllerName \o <<"/">>
                           \o (IF actionRoute # <<>> THEN actionRoute ELSE ToLowerCase(actionName))
                    ELSE replaced
        cleanPath == EnsureLeadingSlash(fullPath)
    IN  Put(map, cleanPath, method,
            Operation(<<Upper(method), " ">> \o cleanPath, <<"Action", ":", " ">> \o actionName,
                      PathParamsOf(cleanPath), DotNetResponses))

\* content.match(/\[Route\s*\(\s*["']([^"']*)["']\s*\)\]/): the prefix of the first
\* match at or after i, <<>> when there is none
RECURSIVE ControllerRoute(_, _)
ControllerRoute(c, i) ==
    IF i > Len(c) THEN <<>>
    ELSE LET open == SkipWs(c, i + 2)
             q1 == SkipWs(c, open + 1)
             q2 == NextQuote(c, q1 + 1)
             close == SkipWs(c, q2 + 1)
         IN  IF /\ i + 1 <= Len(c) /\ c[i] = "[" /\ c[i + 1] = "Route"
                /\ open <= Len(c) /\ c[open] = "("
                /\ q1 <= Len(c) /\ IsQuote(c[q1])
                /\ q2 > 0
                /\ close + 1 <= Len(c) /\ c[close] = ")" /\ c[close + 1] = "]"
             THEN SubSeq(c, q1 + 1, q2 - 1)
             ELSE ControllerRoute(c, i + 1)

DotNetVerbs == {"Get", "Post", "Put", "Delete", "Patch"}

NoMatch == <<0, "", <<>>, <<>>>>

\* `\[Http(Get|Post|Put|Delete|Patch)(?:\s*\(\s*["']([^"']*)["']\s*\))?\]` at i:
\* <<position after the bracket, verb, path, <<>>>>, NoMatch when it does not match
HttpAttributeAt(c, i) ==
    LET open == SkipWs(c, i + 3)
        q1 == SkipWs(c, open + 1)
        q2 == NextQuote(c, q1 + 1)
        close == SkipWs(c, q2 + 1)
    IN  IF ~(i + 3 <= Len(c) /\ c[i] = "[" /\ c[i + 1] = "Http" /\ c[i + 2] \in DotNetVerbs)
        THEN NoMatch
        ELSE IF c[i + 3] = "]" THEN <<i + 4, c[i + 2], <<>>, <<>>>>
        ELSE IF /\ open <= Len(c) /\ c[open] = "("
                /\ q1 <= Len(c) /\ IsQuote(c[q1])
                /\ q2 > 0
                /\ close + 1 <= Len(c) /\ c[close] = ")" /\ c[close + 1] = "]"
        THEN <<close + 2, c[i + 2], SubSeq(c, q1 + 1, q2 - 1), <<>>>>
        ELSE NoMatch

\* `public\s+.*?\s+(\w+)\s*\(` at p: <<position after the parenthesis, "", <<>>, name>>,
\* NoMatch when it does not match; `.*?` stays on its line and takes the fewest symbols
PublicSignatureAt(c, p) ==
    LET s == SkipWs(c, p + 1)
        Fits(j) == /\ IsWs(c[j])
                   /\ \A k \in s..(j - 1) : c[k] # "\n"
                   /\ LET n == SkipWs(c, j)
                          q == SkipWs(c, WordEnd(c, n))
                      IN  WordEnd(c, n) > n /\ q <= Len(c) /\ c[q] = "("
        js == {j \in s..Len(c) : Fits(j)}
    IN  IF p + 1 <= Len(c) /\ c[p] = "public" /\ IsWs(c[p + 1]) /\ js # {}
        THEN LET j == CHOOSE x \in js : \A y \in js : x <= y
                 n == SkipWs(c, j)
             IN  <<SkipWs(c, WordEnd(c, n)) + 1, "", <<>>, SubSeq(c, n, WordEnd(c, n) - 1)>>
        ELSE NoMatch

(* httpActionRegex at i: the attribute, then `\s*(?:.*\n)*?\s*` up to the  *)
(* first `public` signature that begins a line (or follows the attribute   *)
(* after white space only): <<end, verb, path, name>>.                     *)
HttpActionAt(c, i) ==
    LET a == HttpAttributeAt(c, i)
        starts == {SkipWs(c, a[1])}
                    \cup {SkipWs(c, n + 1) : n \in {k \in a[1]..Len(c) : c[k] = "\n"}}
        ps == {p \in starts : PublicSignatureAt(c, p)[1] > 0}
    IN  IF a[1] = 0 \/ ps = {} THEN NoMatch
        ELSE LET sig == PublicSignatureAt(c, CHOOSE x \in ps : \A y \in ps : x <= y)
             IN  <<sig[1], a[2], a[3], sig[4]>>

\* the matches of httpActionRegex.exec in a loop, from position i on
RECURSIVE HttpActions(_, _)
HttpActions(c, i) ==
    IF i > Len(c) THEN <<>>
    ELSE LET m == HttpActionAt(c, i)
         IN  IF m[1] > 0 THEN <<m>> \o HttpActions(c, m[1]) ELSE HttpActions(c, i + 1)

ActionResultTypes == {"IActionResult", "ActionResult", "ViewResult", "JsonResult", "string"}

\* publicActionRegex at i:
\* `public\s+(?:async\s+Task<)?(?:I?ActionResult|ViewResult|JsonResult|string)>?\s+(\w+)\s*\([^)]*\)`
PublicActionAt(c, i) ==
    LET a == SkipWs(c, i + 1)
        t0 == SkipWs(c, a + 1)
        hasTask == /\ a <= Len(c) /\ c[a] = "async"
                   /\ t0 > a + 1 /\ t0 + 1 <= Len(c) /\ c[t0] = "Task" /\ c[t0 + 1] = "<"
        t == IF hasTask THEN t0 + 2 ELSE a
        g == IF t + 1 <= Len(c) /\ c[t + 1] = ">" THEN t + 2 ELSE t + 1
        n == SkipWs(c, g)
        e == WordEnd(c, n)
        open == SkipWs(c, e)
        close == NextTok(c, open + 1, ")")
    IN  IF /\ i + 1 <= Len(c) /\ c[i] = "public" /\ IsWs(c[i + 1])
           /\ t <= Len(c) /\ c[t] \in ActionResultTypes
           /\ n > g /\ e > n
           /\ open <= Len(c) /\ c[open] = "(" /\ close > 0
        THEN <<close + 1, "", <<>>, SubSeq(c, n, e - 1)>>
        ELSE NoMatch

\* the action names of the matches of publicActionRegex.exec in a loop
RECURSIVE PublicActions(_, _)
PublicActions(c, i) ==
    IF i > Len(c) THEN <<>>
    ELSE LET m == PublicActionAt(c, i)
         IN  IF m[1] > 0 THEN <<m[4]>> \o PublicActions(c, m[1]) ELSE PublicActions(c, i + 1)

\* the first loop of parseController
RECURSIVE AddAttributedActions(_, _, _, _)
AddAttributedActions(map, ms, filePath, controllerRoute) ==
    IF Len(ms) = 0 THEN map
    ELSE AddAttributedActions(
             addControllerRoute(map, filePath, controllerRoute, ms[1][3], ms[1][4], Lower(ms[1][2])),
             Tail(ms), filePath, controllerRoute)

\* the second loop: an action is skipped when some description of the map
\* includes `Action: <name>`
RECURSIVE AddConventionActions(_, _, _, _)
AddConventionActions(map, names, filePath, controllerRoute) ==
    IF Len(names) = 0 THEN map
    ELSE LET actionName == names[1]
             alreadyProcessed ==
                 \E p \in DOMAIN map : \E m \in DOMAIN map[p] :
                     Includes(map[p][m].description, <<"Action", ":", " ">> \o actionName)
             next == IF ~alreadyProcessed /\ ~StartsWith(actionName, <<"_">>)
                        /\ actionName # <<"Dispose">>
                     THEN addControllerRoute(map, filePath, controllerRoute,
                                             ToLowerCase(actionName), actionName, "get")
                     ELSE map
         IN  AddConventionActions(next, Tail(names), filePath, controllerRoute)

parseController(c, filePath) ==
    LET controllerRoute == ControllerRoute(c, 1)
        attributed == AddAttributedActions(EmptyMap, HttpActions(c, 1), filePath, controllerRoute)
    IN  AddConventionActions(attributed, PublicActions(c, 1), filePath, controllerRoute)

\* the largest number of actions of a generated controller
MaxActions == 2

ActionNames == {<<"Get">>, <<"Get", "All">>, <<"Index">>}

\* an action: its attribute ("none", or the verb and the explicit path) and its name
Actions == [verb : {"none"}, path : {<<>>}, name : ActionNames]
             \cup [verb : {"Get", "Post"}, path : {<<>>, <<"{", "id", "}">>}, name : ActionNames]

\* the controllers: with or without [Route("api/[controller]")], the actions named apart
ControllerArgs ==
    {a \in [route : BOOLEAN, actions : SeqsUpTo(Actions, MaxActions)] :
        \A j, k \in 1..Len(a.actions) : a.actions[j].name = a.actions[k].name => j = k}

RoutePrefix == <<"api", "/", "[", "controller", "]">>

\* [Http<Verb>("<path>")] on a line, then public IActionResult <Name>() on the next
ActionText(act) ==
    (IF act.verb = "none" THEN <<>>
     ELSE <<"[", "Http", act.verb>>
            \o (IF act.path = <<>> THEN <<>> ELSE <<"(", "\"">> \o act.path \o <<"\"", ")">>)
            \o <<"]", "\n">>)
      \o <<"public", " ", "IActionResult", " ">> \o act.name \o <<"(", ")", "\n">>

ControllerText(a) ==
    (IF a.route THEN <<"[", "Route", "(", "\"">> \o RoutePrefix \o <<"\"", ")", "]", "\n">> ELSE <<>>)
      \o <<"public", " ", "class", " ", "Users", "Controller", "\n", "{", "\n">>
      \o Flatten([k \in 1..Len(a.actions) |-> ActionText(a.actions[k])])
      \o <<"}", "\n">>

ControllerFile == <<"Controllers", "/", "Users", "Controller", ".", "cs">>

InitController ==
    /\ pc = "controller"
    /\ arg \in ControllerArgs
    /\ res = <<>>
    /\ RunIdle

ApplyController ==
    /\ pc = "controller"
    /\ res' = parseController(ControllerText(arg), ControllerFile)
    /\ pc' = "controller-done"
    /\ UNCHANGED <<runvars, libvars, arg>>

NextController == ApplyController

SpecController == InitController /\ [][NextController]_vars

Attributed(act) == act.verb # "none"

\* the pairs <<key, method>> of the result whose Operation is of the named action
OperationsOf(name) ==
    {km \in {<<key, m>> : key \in DOMAIN res, m \in Range(httpMethods)} :
        /\ km[2] \in DOMAIN res[km[1]]
        /\ res[km[1]][km[2]].description = <<"Action", ":", " ">> \o name}

BaseRoute == <<"/", "api", "/", "users">>

\* the key of an attributed action as the claim has it: the action route
\* defaults to the action name with and without a [Route] prefix
ClaimedKey(a, act) ==
    IF a.route
    THEN BaseRoute \o <<"/">> \o (IF act.path # <<>> THEN act.path ELSE ToLowerCase(act.name))
    ELSE IF act.path # <<>> THEN <<"/">> \o act.path
    ELSE <<"/", "users", "/">> \o ToLowerCase(act.name)

\* the key as README-DOTNET.md documents it: an attribute without a path
\* under a [Route] prefix is at the prefix itself
DocumentedKey(a, act) ==
    IF a.route /\ act.path = <<>> THEN BaseRoute ELSE ClaimedKey(a, act)

\* the attributed actions of the controller that land on key with the verb
LandingOn(a, key, verb) ==
    {k \in 1..Len(a.actions) : /\ Attributed(a.actions[k])
                               /\ DocumentedKey(a, a.actions[k]) = key
                               /\ a.actions[k].verb = verb}

\* C21 as stated: every action with an [Http<Verb>] attribute has an Operation
\* with the declared verb at base route + action route, the action route being
\* the action name when the attribute has no path, with a [Route] prefix too.
C21_AttributedActionDefaultsToName ==
    pc = "controller-done" =>
        \A k \in 1..Len(arg.actions) :
            Attributed(arg.actions[k]) =>
                LET key == ClaimedKey(arg, arg.actions[k])
                IN  key \in DOMAIN res /\ Lower(arg.actions[k].verb) \in DOMAIN res[key]

\* C21 amended: every action with an [Http<Verb>] attribute has an Operation
\* with the declared verb at base route + action route; when the attribute has
\* no path the Operation is at the [Route] prefix itself, and at
\* /<controller>/<action name> when the controller has no prefix.  The
\* Operation is of an action that declares this path and verb.
C21_AttributedActionAtDocumentedRoute ==
    pc = "controller-done" =>
        \A k \in 1..Len(arg.actions) :
            Attributed(arg.actions[k]) =>
                LET key == DocumentedKey(arg, arg.actions[k])
                    verb == Lower(arg.actions[k].verb)
                IN  /\ key \in DOMAIN res /\ verb \in DOMAIN res[key]
                    /\ res[key][verb].summary = <<Upper(verb), " ">> \o key
                    /\ \E j \in LandingOn(arg, key, arg.actions[k].verb) :
                           res[key][verb].description = <<"Action", ":", " ">> \o arg.actions[j].name

C21_Witness ==
    /\ pc = "controller-done"
    /\ arg.route
    /\ Len(arg.actions) = 2
    /\ arg.actions[1].verb = "Get" /\ arg.actions[1].path = <<>>
    /\ arg.actions[2].verb = "Get" /\ arg.actions[2].path # <<>>
    /\ BaseRoute \in DOMAIN res /\ "get" \in DOMAIN res[BaseRoute]

\* C24: an action with an [Http<Verb>] attribute has no Operation besides the
\* one at its attributed path and verb, and a public action without such an
\* attribute has exactly one Operation, a get whose last path segment is the
\* action name; in every order of the actions, also when two attributed
\* actions share path and verb and when one name is a prefix of another.
C24_ConventionFallback ==
    pc = "controller-done" =>
        \A k \in 1..Len(arg.actions) :
            LET act == arg.actions[k]
            IN  IF Attributed(act)
                THEN OperationsOf(act.name) \subseteq {<<DocumentedKey(arg, act), Lower(act.verb)>>}
                ELSE \E key \in DOMAIN res :
                         /\ OperationsOf(act.name) = {<<key, "get">>}
                         /\ BaseName(key) = ToLowerCase(act.name)

----------------------------------------------------------------------------
(* The class used as a library (module.exports): a process that constructs *)
(* generators for root directories and calls generate() and save() on      *)
(* them in any order.  The process starts in the directory "caller", the   *)
(* roots are its subdirectories A and B and are passed by their relative   *)
(* names.  Each call runs to its end before the next one starts.  The      *)
(* trees of the roots are of the dialects whose discovery is anchored at   *)
(* ./routes, ./app/api or ./server.js, so that a call made in "caller"     *)
(* finds no file of A or B.                                                *)

RootNames == {"A", "B"}

GenIds == {1, 2}

\* the largest number of calls of a process
MaxCalls == 4

BrokenManifest == {i \in FileIds : Universe[i].content = BrokenManifestText}

LibraryTrees == {TreeOf({UsersRoute}),
                 TreeOf({<<"routes", "/", "users", ".", "js">>}),
                 TreeOf({ServerJs}),
                 TreeOf({ComposerJson, UsersRoute}),
                 BrokenManifest \cup TreeOf({UsersRoute})}

\* the files a relative path reaches from the directory dir
TreeAt(dir) == IF dir \in RootNames THEN roots[dir] ELSE {}

\* path.resolve(projectPath) names an existing directory: the roots are
\* subdirectories of "caller" and have no subdirectory A or B
Resolves(dir, projectPath) == dir = "caller" /\ projectPath \in RootNames

NoGenerator == [constructed |-> FALSE, projectPath |-> "", originalCwd |-> "",
                projectType |-> "none", customPatterns |-> <<>>, djangoRoot |-> <<>>]

\* the fields the constructor assigns, in the directory it has changed to
NewGenerator(dir, projectPath) ==
    LET t == TreeAt(projectPath)
    IN  [constructed |-> TRUE, projectPath |-> projectPath, originalCwd |-> dir,
         projectType |-> detectProjectType(t),
         customPatterns |-> CustomPatternsOf(t),
         djangoRoot |-> IF detectProjectType(t) = "django" THEN DjangoRootOf(t) ELSE <<>>]

\* files.forEach(file => Object.assign(spec.paths, this.parseFile(file)))
RECURSIVE MergeAll(_, _, _)
MergeAll(t, fs, acc) ==
    IF Len(fs) = 0 THEN acc
    ELSE MergeAll(t, Tail(fs), ObjectAssign(acc, parseFile(t, fs[1])))

\* generate() of the generator gen, called in the directory dir
generate(gen, dir) ==
    IF gen.projectType = "unsupported" THEN [outcome |-> "null", paths |-> EmptyMap]
    ELSE [outcome |-> "spec",
          paths |-> MergeAll(TreeAt(dir),
                             getRouteFiles(TreeAt(dir), gen.projectType,
                                           gen.customPatterns, gen.djangoRoot),
                             EmptyMap)]

\* save() without process.chdir(this.originalCwd)
DirAfterSave_NotRestored(gen) == cwd

\* the working directory after save(): process.chdir(this.originalCwd)
DirAfterSave(gen) == gen.originalCwd

Called(op, g, projectPath, r) ==
    [op |-> op, gen |-> g, projectPath |-> projectPath, outcome |-> r.outcome, paths |-> r.paths]

InitLibrary ==
    /\ pc = "library"
    /\ FnIdle
    /\ tree = {}
    /\ cwd = "caller"
    /\ originalCwd = "caller"
    /\ projectType = "none"
    /\ customPatterns = <<>>
    /\ djangoRoot = <<>>
    /\ files = <<>>
    /\ idx = 1
    /\ paths = EmptyMap
    /\ result = "none"
    /\ written = FALSE
    /\ exitCode = -1
    /\ config = <<>>
    /\ error = "none"
    /\ roots \in [RootNames -> LibraryTrees]
    /\ gens = [g \in GenIds |-> NoGenerator]
    /\ log = <<>>

\* new UniversalSwaggerGenerator(projectPath): process.chdir throws ENOENT when
\* the path does not resolve, loadConfig throws on a malformed package.json
\* after the directory has been changed
LibConstruct(g, projectPath) ==
    /\ pc = "library"
    /\ Len(log) < MaxCalls
    /\ ~gens[g].constructed
    /\ IF ~Resolves(cwd, projectPath)
       THEN /\ log' = Append(log, Called("construct", g, projectPath,
                                         [outcome |-> "ENOENT", paths |-> EmptyMap]))
            /\ UNCHANGED <<cwd, gens>>
       ELSE /\ cwd' = projectPath
            /\ IF loadConfigThrows(TreeAt(projectPath))
               THEN /\ log' = Append(log, Called("construct", g, projectPath,
                                                 [outcome |-> "SyntaxError", paths |-> EmptyMap]))
                    /\ UNCHANGED gens
               ELSE /\ log' = Append(log, Called("construct", g, projectPath,
                                                 [outcome |-> "ok", paths |-> EmptyMap]))
                    /\ gens' = [gens EXCEPT ![g] = NewGenerator(cwd, projectPath)]
    /\ UNCHANGED <<pc, tree, originalCwd, projectType, customPatterns, djangoRoot, files, idx,
                   paths, result, written, exitCode, config, error, fnvars, roots>>

\* generator.generate(), or generator.save(): save() runs generate() and then
\* changes the directory back
LibCall(g, op) ==
    /\ pc = "library"
    /\ Len(log) < MaxCalls
    /\ gens[g].constructed
    /\ log' = Append(log, Called(op, g, gens[g].projectPath, generate(gens[g], cwd)))
    /\ cwd' = IF op = "save" THEN DirAfterSave(gens[g]) ELSE cwd
    /\ UNCHANGED <<pc, tree, originalCwd, projectType, customPatterns, djangoRoot, files, idx,
                   paths, result, written, exitCode, config, error, fnvars, roots, gens>>

NextLibrary ==
    \/ \E g \in GenIds, r \in RootNames : LibConstruct(g, r)
    \/ \E g \in GenIds, op \in {"generate", "save"} : LibCall(g, op)

SpecLibrary == InitLibrary /\ [][NextLibrary]_vars

\* the calls k and k + 1 are a run of the pipeline on the root r: a generator is
\* constructed for r and save() is called on it
PipelineAt(k, r) ==
    /\ k + 1 <= Len(log)
    /\ log[k].op = "construct" /\ log[k].projectPath = r /\ log[k].outcome = "ok"
    /\ log[k + 1].op = "save" /\ log[k + 1].gen = log[k].gen

\* C22: when the pipeline has run on a root and is run again on the same root,
\* the second run constructs its generator as the first did and its save()
\* returns what the first returned: the same paths map, key for key and
\* Operation for Operation, or null both times.
C22_PipelineIsIdempotent ==
    \A r \in RootNames : \A k \in 1..Len(log) :
        (PipelineAt(k, r) /\ k + 2 <= Len(log)
           /\ log[k + 2].op = "construct" /\ log[k + 2].projectPath = r)
          => /\ log[k + 2].outcome = "ok"
             /\ PipelineAt(k + 2, r) =>
                    /\ log[k + 3].outcome = log[k + 1].outcome
                    /\ log[k + 3].paths = log[k + 1].paths

C22_Witness ==
    /\ PipelineAt(1, "A")
    /\ PipelineAt(3, "A")
    /\ log[2].outcome = "spec"
    /\ log[2].paths # EmptyMap
    /\ log[4].paths = log[2].paths

\* what generate() of a generator for the root r yields from the tree of r
OwnResult(r) == generate(NewGenerator("caller", r), r)

\* C23: in every interleaving of constructions and calls of generate() and
\* save(), each call returns what the tree under its generator's own
\* projectPath determines, whatever the working directory at the call is.
C23_CallsDependOnOwnRootOnly ==
    \A k \in 1..Len(log) :
        log[k].op \in {"generate", "save"} =>
            /\ log[k].outcome = OwnResult(log[k].projectPath).outcome
            /\ log[k].paths = OwnResult(log[k].projectPath).paths

\* C29: when the run of construct and save has ended, by a written spec, by a
\* null of save() or by an exception of the constructor, the working
\* directory of the process is the one it was before the construction.
C29_WorkingDirectoryRestored ==
    pc \in {"saved", "exited"} => cwd = "caller"

----------------------------------------------------------------------------
(* Properties of discovery in a Strapi and in an auto-detected project.    *)

\* the directory that holds the file q, and the directory that holds that one
ParentName(q) == LET segs == Segs(q) IN IF Len(segs) >= 2 THEN segs[Len(segs) - 1] ELSE <<>>
GrandParentName(q) == LET segs == Segs(q) IN IF Len(segs) >= 3 THEN segs[Len(segs) - 2] ELSE <<>>

\* C25: for a Strapi project, discovery returns exactly the .js and .ts files
\* that lie directly in a directory named routes whose parent directory is
\* named server, under packages, src/api, api, server/routes or src/routes.
C25_StrapiServerRoutesOnly ==
    (Discovered /\ projectType = "strapi") =>
        {Normalize(files[k]) : k \in 1..Len(files)} =
            {Universe[i].path : i \in {j \in tree :
                /\ \E sp \in Range(StrapiSearchPaths) : IsUnder(Universe[j].path, Normalize(sp))
                /\ IsSourceName(Universe[j].path)
                /\ ParentName(Universe[j].path) = <<"routes">>
                /\ GrandParentName(Universe[j].path) = <<"server">>}}

\* C26: the classification is auto-detected only when some retained file holds
\* a call app.get, app.post, router.get or router.post, and every file
\* retained for discovery holds one.
C26_AutoDetectedHasVerbCall ==
    (pc # "start" /\ projectType = "auto-detected") =>
        /\ Len(customPatterns) > 0
        /\ \A k \in 1..Len(customPatterns) :
               /\ Readable(tree, Rel(customPatterns[k]))
               /\ HasVerbCall(ReadFileSync(tree, Rel(customPatterns[k])))

\* the test scanForRoutePatterns applies to a file f of a conventional
\* directory: its content holds "router.", "app." or "Router()", or its path
\* holds "router"
PassesDirectoryTest(f) ==
    LET c == ReadFileSync(tree, Rel(f))
    IN  /\ \E cp \in Range(CommonPaths) : IsUnder(f, cp)
        /\ IsJsTsPhp(f)
        /\ Readable(tree, Rel(f))
        /\ \/ Includes(c, <<"router", ".">>) \/ Includes(c, <<"app", ".">>)
           \/ Includes(c, <<"Router", "(", ")">>) \/ Includes(f, <<"router">>)

\* the test scanForRoutePatterns applies to a single-file entry point f
PassesSingleFileTest(f) ==
    /\ f \in Range(SingleFiles)
    /\ Readable(tree, Rel(f))
    /\ HasVerbCall(ReadFileSync(tree, Rel(f)))

\* C26 (amended): the classification is auto-detected only when a single-file
\* entry point holds a call app.get, app.post, router.get or router.post, or a
\* file of a conventional directory holds "router.", "app." or "Router()" or
\* has "router" in its path; every retained file passes the test of its kind,
\* and a project none of whose files passes its test is not auto-detected.
C26_AutoDetectedByKind ==
    /\ (pc # "start" /\ projectType = "auto-detected") =>
           /\ Len(customPatterns) > 0
           /\ \A k \in 1..Len(customPatterns) :
                  \/ PassesSingleFileTest(customPatterns[k])
                  \/ PassesDirectoryTest(customPatterns[k])
    /\ (pc # "start" /\ projectType = "unknown") =>
           \A i \in tree : /\ ~PassesSingleFileTest(Universe[i].path)
                           /\ ~PassesDirectoryTest(Universe[i].path)

C26_Witness ==
    /\ pc # "start"
    /\ projectType = "auto-detected"
    /\ customPatterns = <<UseOnly>>
    /\ ~HasVerbCall(ReadFileSync(tree, Rel(UseOnly)))

----------------------------------------------------------------------------
(* Properties of the keys of the final map.                                *)

\* the directories the files of a dialect are found in
MountPoints ==
    {<<"app", "/", "api">>, <<"pages", "/", "api">>, <<"routes">>, <<"src", "/", "routes">>,
     <<"src", "/", "modules">>, <<"backend", "/", "src", "/", "modules">>}
        \cup (IF projectType = "auto-detected" THEN Range(CommonPaths) ELSE {})

\* C27: every key of the final map begins with "/" and has no prefix from the
\* place of its file: no leading "./" and no directory the files of the
\* dialect are found in.
C27_KeysAreRouteTemplates ==
    MapComplete =>
        \A key \in DOMAIN paths :
            /\ StartsWith(key, <<"/">>)
            /\ ~StartsWith(key, <<".", "/">>)
            /\ \A mp \in MountPoints :
                   LET rest == StripPrefix(StripPrefix(key, <<".", "/">>), <<"/">>)
                   IN  rest # mp /\ ~StartsWith(rest, mp \o <<"/">>)

\* the names between braces in a key
PlaceholdersOf(key) == Range(BraceNames(key))

\* the parameters of an Operation that are in the path
PathParametersOf(op) == {op.parameters[k] : k \in {j \in 1..Len(op.parameters) : op.parameters[j].in = "path"}}

\* C28: under every key of the final map, the path parameters of every
\* Operation are the placeholders {name} of the key, each of them required.
C28_PlaceholdersArePathParameters ==
    MapComplete =>
        \A key \in DOMAIN paths : \A m \in DOMAIN paths[key] :
            /\ {p.name : p \in PathParametersOf(paths[key][m])} = PlaceholdersOf(key)
            /\ \A p \in PathParametersOf(paths[key][m]) : p.required

----------------------------------------------------------------------------
(* parseFile on a handler file whose functions look up query values, as    *)
(* the example app/api/users/route.ts of the README does.                  *)

\* the largest number of searchParams.get lookups of a generated function
MaxLookups == 2

\* searchParams.get('<name>'); and, when checked, if (!<name>) return;
SearchParamsGet(l) ==
    <<"searchParams", ".", "get", "(", "'", l.name, "'", ")", ";">>
        \o (IF l.checked THEN <<"if", "(", "!", l.name, ")", "return", ";">> ELSE <<>>)

\* request.json();
RequestJson == <<"request", ".", "json", "(", ")", ";">>

\* export async function <NAME>() { ... }
LookupHandlerText(name, body) ==
    <<"export", " ", "async", " ", "function", " ", name, "(", ")", " ", "{">> \o body \o <<"}", "\n">>

\* the file: GET with its lookups, and POST, which may read the body
LookupArgs == [lookups : SeqsUpTo([name : QueryNames, checked : BOOLEAN], MaxLookups),
               post : BOOLEAN, body : BOOLEAN]

LookupFileText(a) ==
    LookupHandlerText("GET", Flatten([k \in 1..Len(a.lookups) |-> SearchParamsGet(a.lookups[k])]))
        \o (IF a.post THEN LookupHandlerText("POST", IF a.body THEN RequestJson ELSE <<>>) ELSE <<>>)

InitLookup ==
    /\ pc = "lookup"
    /\ arg \in LookupArgs
    /\ res = <<>>
    /\ RunIdle

\* parseFile on app/api/users/route.ts with the generated functions
ApplyLookup ==
    /\ pc = "lookup"
    /\ res' = parseContent(LookupFileText(arg), UsersRoute)
    /\ pc' = "lookup-done"
    /\ UNCHANGED <<runvars, libvars, arg>>

NextLookup == ApplyLookup

SpecLookup == InitLookup /\ [][NextLookup]_vars

\* the names looked up in the file
LookedUp == {arg.lookups[k].name : k \in 1..Len(arg.lookups)}

\* C30: in a handler file, a lookup searchParams.get('name') adds the query
\* parameter name to the Operations of the file and no key to the map: the
\* map has no key but the base path of the file.
C30_LookupAddsNoPath ==
    pc = "lookup-done" =>
        /\ DOMAIN res \subseteq {getRoutePath(UsersRoute)}
        /\ \A key \in DOMAIN res : \A m \in DOMAIN res[key] :
               {p.name : p \in {q \in Range(res[key][m].parameters) : q.in = "query"}}
                   = {<<n>> : n \in LookedUp}

====
